---- MODULE Spec2Model ----
(***************************************************************************)
(* A model of the JSL evaluator (src/src/vm.rs) and of the validator       *)
(* configuration that drives it (src/src/validator.rs).                    *)
(*                                                                         *)
(* Vm::eval is a recursive function over (schema, instance) that mutates   *)
(* the Vm struct; it is modelled by the recursive operator eval, which     *)
(* threads the Vm record through every push, pop and recursive call in the *)
(* order of the code, and which stops at the first `?` that propagates an  *)
(* EvalError.  The state machine is the life cycle of a Config / Validator:*)
(* the three setters, Validator::new_with_config, and Validator::validate. *)
(*                                                                         *)
(* The second half models the Registry of src/src/registry.rs: register,   *)
(* with its recomputation of the missing ids, and the register / fetch     *)
(* loop of its documentation.  The last part models the older generation   *)
(* of the crate: the wire form of a schema (src/src/serde.rs) and the      *)
(* Registry of src/src/schema.rs, which canonicalizes wire schemas in      *)
(* three passes.  Each machine has its own specification and leaves the    *)
(* variables of the others alone.                                          *)
(***************************************************************************)
EXTENDS Integers, Sequences, FiniteSets, Bags, TLC

VARIABLES
    pc,        \* "config": a Config is being built; "ready": a Validator holds it; "done": validate has returned
    config,    \* the Config struct: max_errors, max_depth, strict_instance_semantics
    schema,    \* the schema handed to the last validate call
    instance,  \* the instance handed to the last validate call
    iter,      \* the iteration order the hash maps had during the last validate call
    vm,        \* the Vm struct as vm.eval left it in the last validate call
    result,    \* what the last validate call returned
    schemas,     \* Registry.schemas: the stored root schemas, by id
    missing_ids, \* Registry.missing_ids
    call,        \* the last register call: its argument, the Registry before it, what it returned
    world,       \* the documents the caller's fetch function can produce, by URI
    loop,        \* the caller's position in the register / fetch loop
    wire,        \* the JSON document last given to serde_json::from_str
    parsed,      \* the Result<SerdeSchema> from_str returned for it
    round_trip,  \* the document to_string produced from the parsed SerdeSchema, if it was called
    canonical,   \* the Result<Schema> of Registry::first_pass on the parsed SerdeSchema, if it was called
    uri_schemas, \* schemas of the Registry of schema.rs: the stored root schemas, by Option<Url>
    uri_call     \* the last register call on that Registry: its batch, the schemas before it, what it returned

validator_vars == <<pc, config, schema, instance, iter, vm, result>>
registry_vars == <<schemas, missing_ids, call, world, loop>>
canon_vars == <<wire, parsed, round_trip, canonical, uri_schemas, uri_call>>
vars == <<pc, config, schema, instance, iter, vm, result,
          schemas, missing_ids, call, world, loop,
          wire, parsed, round_trip, canonical, uri_schemas, uri_call>>

(***************************************************************************)
(* Bounds of the model.                                                    *)
(***************************************************************************)
\* Config::max_errors is set to a value in 0..MaxErrorsCfg.
MaxErrorsCfg == 3
\* Config::max_depth is set to a value in 0..MaxDepthCfg (or left at its default).
MaxDepthCfg == 3
\* The number of nested schema frames the model follows.  A recursion that
\* needs more frames is reported as "Overflow"; validate is explored only where
\* that report is true of the program at every stack size (see Validator_validate).
StackLimit == 8

(***************************************************************************)
(* Program constants.                                                      *)
(***************************************************************************)
DefaultMaxErrors == 0
DefaultMaxDepth == 32

(***************************************************************************)
(* Option<T>.                                                              *)
(***************************************************************************)
None == [some |-> FALSE]
Some(x) == [some |-> TRUE, v |-> x]

\* Vec::pop leaves the last element out; on an empty Vec it does nothing.
Front(s) == SubSeq(s, 1, Len(s) - 1)
Last(s) == s[Len(s)]

(***************************************************************************)
(* serde_json::Value.  A number carries its integral part and whether it   *)
(* has a non-zero fractional part (f64::fract() != 0.0).                   *)
(***************************************************************************)
Null == [t |-> "null"]
Bool(b) == [t |-> "boolean", v |-> b]
Num(n) == [t |-> "number", v |-> n, fract |-> FALSE]
Frac(n) == [t |-> "number", v |-> n, fract |-> TRUE]
Str(s) == [t |-> "string", v |-> s]
Arr(elems) == [t |-> "array", v |-> elems]
Obj(fields) == [t |-> "object", v |-> fields]

is_boolean(value) == value.t = "boolean"
is_number(value) == value.t = "number"
is_string(value) == value.t = "string"
is_array(value) == value.t = "array"
is_object(value) == value.t = "object"

\* The strings DateTime::parse_from_rfc3339 accepts, among those of the model.
Rfc3339Strings == {"1985-04-12T23:20:50.52Z"}
parse_from_rfc3339_is_err(s) == s \notin Rfc3339Strings

(***************************************************************************)
(* Schema and Form.  A schema is [definitions, form]; definitions is       *)
(* Some(map) for a root schema and None for a sub-schema.                  *)
(***************************************************************************)
EmptyMap == <<>>

Sub(form) == [definitions |-> None, form |-> form]
Root(defs, form) == [definitions |-> Some(defs), form |-> form]

FEmpty == [f |-> "Empty"]
FRef(def) == [f |-> "Ref", def |-> def]
FType(typ) == [f |-> "Type", typ |-> typ]
FEnum(values) == [f |-> "Enum", values |-> values]
FElements(sub) == [f |-> "Elements", sub |-> sub]
FProperties(required, optional, has_required) ==
    [f |-> "Properties", required |-> required, optional |-> optional,
     has_required |-> has_required]
FValues(sub) == [f |-> "Values", sub |-> sub]
FDiscriminator(tag, mapping) == [f |-> "Discriminator", tag |-> tag, mapping |-> mapping]

(***************************************************************************)
(* Iteration order of the maps.  The property maps are hash maps and the   *)
(* instance objects are serde_json maps: the order in which their keys are *)
(* visited is not fixed by the code.  An order is a ranking of the keys;   *)
(* every map is visited by increasing rank.                                *)
(***************************************************************************)
Keys == {"a", "b", "t"}

KeyOrders == {o \in [Keys -> 1..Cardinality(Keys)] : \A j, k \in Keys : j # k => o[j] # o[k]}

RECURSIVE KeySeq(_, _)
KeySeq(keys, order) ==
    IF keys = {} THEN <<>>
    ELSE LET first == CHOOSE k \in keys : \A j \in keys : order[k] <= order[j]
         IN  <<first>> \o KeySeq(keys \ {first}, order)

(***************************************************************************)
(* ValidationError and the Vm struct.                                      *)
(***************************************************************************)
ValidationError(instance_path, schema_path) ==
    [instance_path |-> instance_path, schema_path |-> schema_path]

\* The Vm built by validate; ret is the Result of the eval call in progress
\* ("Ok", or the EvalError "Internal" / "Actual"), order the maps' iteration order.
NewVm(max_failures, max_depth, strict_instance_semantics, root_schema, order) ==
    [max_failures |-> max_failures,
     max_depth |-> max_depth,
     strict_instance_semantics |-> strict_instance_semantics,
     root_schema |-> root_schema,
     instance_tokens |-> <<>>,
     schema_tokens |-> << <<>> >>,
     errors |-> <<>>,
     order |-> order,
     ret |-> "Ok"]

\* The `?` operator: go on with rest only when the step before returned Ok.
Try(v, rest(_)) == IF v.ret = "Ok" THEN rest(v) ELSE v

push_schema_token(v, token) ==
    [v EXCEPT !.schema_tokens[Len(v.schema_tokens)] = Append(@, token)]

pop_schema_token(v) ==
    [v EXCEPT !.schema_tokens[Len(v.schema_tokens)] = Front(@)]

push_instance_token(v, token) ==
    [v EXCEPT !.instance_tokens = Append(@, token)]

pop_instance_token(v) ==
    [v EXCEPT !.instance_tokens = Front(@)]

\* A variant of push_err that compares the count with max_failures before the
\* error is appended.
push_err_check_first(v) ==
    [v EXCEPT !.errors = Append(v.errors,
                                ValidationError(v.instance_tokens, Last(v.schema_tokens))),
              !.ret = IF Len(v.errors) = v.max_failures THEN "Internal" ELSE "Ok"]

push_err(v) ==
    LET errors == Append(v.errors,
                         ValidationError(v.instance_tokens, Last(v.schema_tokens)))
    IN  [v EXCEPT !.errors = errors,
                  !.ret = IF Len(errors) = v.max_failures THEN "Internal" ELSE "Ok"]

\* push_schema_token(token); push_err()?; pop_schema_token()
type_err(v) == Try(push_err(push_schema_token(v, "type")), pop_schema_token)

check_int(v, value, min, max) ==
    IF is_number(value)
    THEN IF value.fract \/ value.v < min \/ value.v > max THEN type_err(v) ELSE v
    ELSE type_err(v)

eval_type(v, typ, value) ==
    CASE typ = "boolean" -> IF ~is_boolean(value) THEN type_err(v) ELSE v
      [] typ \in {"number", "float32", "float64"} ->
            IF ~is_number(value) THEN type_err(v) ELSE v
      [] typ = "int8" -> check_int(v, value, -128, 127)
      [] typ = "uint8" -> check_int(v, value, 0, 255)
      [] typ = "int16" -> check_int(v, value, -32768, 32767)
      [] typ = "uint16" -> check_int(v, value, 0, 65535)
      [] typ = "string" -> IF ~is_string(value) THEN type_err(v) ELSE v
      [] typ = "timestamp" ->
            IF is_string(value)
            THEN IF parse_from_rfc3339_is_err(value.v) THEN type_err(v) ELSE v
            ELSE type_err(v)

eval_enum(v, values, value) ==
    IF is_string(value)
    THEN IF value.v \notin values
         THEN Try(push_err(push_schema_token(v, "enum")), pop_schema_token)
         ELSE v
    ELSE Try(push_err(push_schema_token(v, "enum")), pop_schema_token)

RECURSIVE eval(_, _, _, _)
RECURSIVE eval_elements_loop(_, _, _, _)
RECURSIVE eval_required_loop(_, _, _, _, _)
RECURSIVE eval_optional_loop(_, _, _, _, _)
RECURSIVE eval_strict_loop(_, _, _, _, _, _)
RECURSIVE eval_values_loop(_, _, _, _, _)

\* self.schema_tokens.push(vec!["definitions".into(), def.into()])
push_frame(v, def) == [v EXCEPT !.schema_tokens = Append(@, <<"definitions", def>>)]

\* A variant of pop_frame that pops a token of the current frame in place of the frame.
pop_frame_token_only(v) ==
    [v EXCEPT !.schema_tokens[Len(v.schema_tokens)] = Front(@)]

\* self.schema_tokens.pop()
pop_frame(v) == [v EXCEPT !.schema_tokens = Front(@)]

\* Form::Ref.  Past the depth check the call recurses; a recursion deeper than
\* the native stack allows aborts the process ("Overflow").  Indexing the
\* definitions with a name they lack panics ("Panic").
eval_ref(v, def, value) ==
    IF Len(v.schema_tokens) = v.max_depth THEN [v EXCEPT !.ret = "Actual"]
    ELSE IF ~v.root_schema.definitions.some \/ def \notin DOMAIN v.root_schema.definitions.v
         THEN [v EXCEPT !.ret = "Panic"]
    ELSE IF Len(v.schema_tokens) >= StackLimit THEN [v EXCEPT !.ret = "Overflow"]
    ELSE LET refd_schema == v.root_schema.definitions.v[def]
         IN  Try(eval(push_frame(v, def), refd_schema, value, None), pop_frame)

\* for (i, elem) in arr.iter().enumerate(); i is 1-based here, the token is i - 1.
eval_elements_loop(v, sub_schema, arr, i) ==
    IF i > Len(arr) THEN v
    ELSE Try(eval(push_instance_token(v, ToString(i - 1)), sub_schema, arr[i], None),
             LAMBDA w : eval_elements_loop(pop_instance_token(w), sub_schema, arr, i + 1))

eval_elements(v, sub_schema, value) ==
    LET v1 == push_schema_token(v, "elements")
    IN  Try(IF is_array(value) THEN eval_elements_loop(v1, sub_schema, value.v, 1)
            ELSE push_err(v1),
            pop_schema_token)

\* for (property, sub_schema) in required
eval_required_loop(v, required, obj, keys, i) ==
    IF i > Len(keys) THEN v
    ELSE LET property == keys[i]
             v1 == push_schema_token(v, property)
             v2 == IF property \in DOMAIN obj
                   THEN Try(eval(push_instance_token(v1, property),
                                 required[property], obj[property], None),
                            pop_instance_token)
                   ELSE push_err(v1)
         IN  Try(v2, LAMBDA w : eval_required_loop(pop_schema_token(w), required, obj,
                                                   keys, i + 1))

\* for (property, sub_schema) in optional
eval_optional_loop(v, optional, obj, keys, i) ==
    IF i > Len(keys) THEN v
    ELSE LET property == keys[i]
             v1 == push_schema_token(v, property)
             v2 == IF property \in DOMAIN obj
                   THEN Try(eval(push_instance_token(v1, property),
                                 optional[property], obj[property], None),
                            pop_instance_token)
                   ELSE v1
         IN  Try(v2, LAMBDA w : eval_optional_loop(pop_schema_token(w), optional, obj,
                                                   keys, i + 1))

\* A variant of undeclared that exempts the key t, the tag of every
\* discriminator of the catalogue, at any depth below the discriminator.
undeclared_tag_at_any_depth(key, required, optional, parent_tag) ==
    key # "t" /\ key \notin DOMAIN required /\ key \notin DOMAIN optional

\* A variant of undeclared that ignores the tag handed down.
undeclared_ignoring_tag(key, required, optional, parent_tag) ==
    key \notin DOMAIN required /\ key \notin DOMAIN optional

\* The test of the strict instance check: the key is neither the tag handed
\* down by the enclosing discriminator, nor required, nor optional.
undeclared(key, required, optional, parent_tag) ==
    LET parent_match == IF parent_tag.some THEN key = parent_tag.v ELSE FALSE
    IN  ~parent_match /\ key \notin DOMAIN required /\ key \notin DOMAIN optional

\* for key in obj.keys()
eval_strict_loop(v, required, optional, parent_tag, keys, i) ==
    IF i > Len(keys) THEN v
    ELSE LET v1 == IF undeclared(keys[i], required, optional, parent_tag)
                   THEN Try(push_err(push_instance_token(v, keys[i])), pop_instance_token)
                   ELSE v
         IN  Try(v1, LAMBDA w : eval_strict_loop(w, required, optional, parent_tag,
                                                 keys, i + 1))

\* A variant of properties_non_object that always reports the properties keyword.
properties_non_object_required(v, has_required) ==
    Try(push_err(push_schema_token(v, "properties")), pop_schema_token)

\* The instance is not an object: one error, at `properties` if the keyword
\* was present and at `optionalProperties` otherwise.
properties_non_object(v, has_required) ==
    LET v1 == IF has_required THEN push_schema_token(v, "properties")
              ELSE push_schema_token(v, "optionalProperties")
    IN  Try(push_err(v1), pop_schema_token)

eval_properties(v, required, optional, has_required, value, parent_tag) ==
    IF is_object(value)
    THEN LET obj == value.v
             v1 == push_schema_token(v, "properties")
             v2 == eval_required_loop(v1, required, obj,
                                      KeySeq(DOMAIN required, v.order), 1)
             v3 == Try(v2, LAMBDA w : eval_optional_loop(
                                push_schema_token(pop_schema_token(w), "optionalProperties"),
                                optional, obj, KeySeq(DOMAIN optional, v.order), 1))
             v4 == Try(v3, pop_schema_token)
         IN  Try(v4, LAMBDA w :
                 IF w.strict_instance_semantics
                 THEN eval_strict_loop(w, required, optional, parent_tag,
                                       KeySeq(DOMAIN obj, v.order), 1)
                 ELSE w)
    ELSE properties_non_object(v, has_required)

\* for (property, sub_instance) in obj
eval_values_loop(v, sub_schema, obj, keys, i) ==
    IF i > Len(keys) THEN v
    ELSE LET property == keys[i]
         IN  Try(eval(push_instance_token(v, property), sub_schema, obj[property], None),
                 LAMBDA w : eval_values_loop(pop_instance_token(w), sub_schema, obj,
                                             keys, i + 1))

eval_values(v, sub_schema, value) ==
    LET v1 == push_schema_token(v, "values")
    IN  Try(IF is_object(value)
            THEN eval_values_loop(v1, sub_schema, value.v, KeySeq(DOMAIN value.v, v.order), 1)
            ELSE push_err(v1),
            pop_schema_token)

\* The tag's value names a mapped schema: evaluate it on the same instance,
\* handing the tag name down.
discriminator_mapped(v, tag, mapping, instance_tag, value) ==
    LET v1 == push_schema_token(push_schema_token(v, "mapping"), instance_tag)
    IN  Try(eval(v1, mapping[instance_tag], value, Some(tag)),
            LAMBDA w : pop_schema_token(pop_schema_token(w)))

\* A variant of discriminator_unmapped that reports the tag keyword.
discriminator_unmapped_as_tag(v, tag) ==
    LET v1 == push_instance_token(push_schema_token(v, "tag"), tag)
    IN  Try(push_err(v1), LAMBDA w : pop_schema_token(pop_instance_token(w)))

\* The tag's value is a string the mapping lacks.
discriminator_unmapped(v, tag) ==
    LET v1 == push_instance_token(push_schema_token(v, "mapping"), tag)
    IN  Try(push_err(v1), LAMBDA w : pop_schema_token(pop_instance_token(w)))

\* The tag's value is not a string.
discriminator_bad_tag(v, tag) ==
    LET v1 == push_instance_token(push_schema_token(v, "tag"), tag)
    IN  Try(push_err(v1), LAMBDA w : pop_schema_token(pop_instance_token(w)))

\* The instance has no tag.
discriminator_no_tag(v) ==
    Try(push_err(push_schema_token(v, "tag")), pop_schema_token)

\* Form::Discriminator.  The "discriminator" token pushed first is not popped
\* on any path of the code.
eval_discriminator(v, tag, mapping, value) ==
    LET v1 == push_schema_token(v, "discriminator")
    IN  IF is_object(value)
        THEN IF tag \in DOMAIN value.v
             THEN LET instance_tag == value.v[tag]
                  IN  IF is_string(instance_tag)
                      THEN IF instance_tag.v \in DOMAIN mapping
                           THEN discriminator_mapped(v1, tag, mapping, instance_tag.v, value)
                           ELSE discriminator_unmapped(v1, tag)
                      ELSE discriminator_bad_tag(v1, tag)
             ELSE discriminator_no_tag(v1)
        ELSE push_err(v1)

eval(v, sch, value, parent_tag) ==
    LET form == sch.form
    IN  CASE form.f = "Empty" -> v
          [] form.f = "Ref" -> eval_ref(v, form.def, value)
          [] form.f = "Type" -> eval_type(v, form.typ, value)
          [] form.f = "Enum" -> eval_enum(v, form.values, value)
          [] form.f = "Elements" -> eval_elements(v, form.sub, value)
          [] form.f = "Properties" ->
                eval_properties(v, form.required, form.optional, form.has_required,
                                value, parent_tag)
          [] form.f = "Values" -> eval_values(v, form.sub, value)
          [] form.f = "Discriminator" ->
                eval_discriminator(v, form.tag, form.mapping, value)

\* The Vm of validate after vm.eval(schema, instance, None) has returned.
run_vm(max_failures, max_depth, strict_instance_semantics, sch, value, order) ==
    eval(NewVm(max_failures, max_depth, strict_instance_semantics, sch, order),
         sch, value, None)

\* A variant of validate_result that returns the errors collected so far when
\* the depth is exceeded.
validate_result_partial(v) ==
    CASE v.ret \in {"Ok", "Internal", "Actual"} -> [kind |-> "Ok", errors |-> v.errors]
      [] OTHER -> [kind |-> "Abort", cause |-> v.ret]

\* The match of validate on what vm.eval returned.  A stack overflow or a
\* panic ends the process: validate returns nothing ("Abort").
validate_result(v) ==
    CASE v.ret \in {"Ok", "Internal"} -> [kind |-> "Ok", errors |-> v.errors]
      [] v.ret = "Actual" -> [kind |-> "Err", error |-> "MaxDepthExceeded"]
      [] OTHER -> [kind |-> "Abort", cause |-> v.ret]

(***************************************************************************)
(* The schemas and instances validate is applied to.                       *)
(***************************************************************************)
Timestamp == "1985-04-12T23:20:50.52Z"

StringSchema == Sub(FType("string"))
\* {"properties": {"a": {"type": "string"}}}
BranchSchema == Sub(FProperties("a" :> StringSchema, EmptyMap, TRUE))
\* {"discriminator": {"tag": "t", "mapping": {"x": {"properties": {"a": {"type": "string"}}}}}}
DiscriminatorForm == FDiscriminator("t", "x" :> BranchSchema)

SEmpty == Root(EmptyMap, FEmpty)
SUint8 == Root(EmptyMap, FType("uint8"))
STimestamp == Root(EmptyMap, FType("timestamp"))
SEnum == Root(EmptyMap, FEnum({"x", "y"}))
\* validator.rs, test infinite_loop
SLoop == Root("a" :> Sub(FRef("a")), FRef("a"))
\* validator.rs, test max_errors
SStrings == Root(EmptyMap, FElements(StringSchema))
\* lib.rs, the crate's example: a is name, b is age, t is phones
SPerson == Root(EmptyMap,
                FProperties("a" :> StringSchema @@ "b" :> Sub(FType("number")),
                            "t" :> Sub(FElements(StringSchema)), TRUE))
SRefBool == Root("a" :> Sub(FType("boolean")), FRef("a"))
SChain2 == Root("a" :> Sub(FRef("b")) @@ "b" :> Sub(FType("boolean")), FRef("a"))
SChain3 == Root("a" :> Sub(FRef("b")) @@ "b" :> Sub(FRef("c")) @@ "c" :> Sub(FType("boolean")),
                FRef("a"))
SCycElems == Root("a" :> Sub(FElements(Sub(FRef("a")))), FRef("a"))
SDisc == Root(EmptyMap, DiscriminatorForm)
SStrict == Root(EmptyMap, FProperties("a" :> Sub(FEmpty), EmptyMap, TRUE))
SOptOnly == Root(EmptyMap, FProperties(EmptyMap, "a" :> StringSchema, FALSE))
SSibling == Root(EmptyMap,
                 FProperties("a" :> Sub(DiscriminatorForm) @@ "b" :> StringSchema,
                             EmptyMap, TRUE))
SOptSibling == Root(EmptyMap,
                    FProperties("a" :> Sub(DiscriminatorForm),
                                "b" :> StringSchema, TRUE))
SElemDisc == Root(EmptyMap, FElements(Sub(DiscriminatorForm)))
SValues == Root(EmptyMap, FValues(StringSchema))
SValuesDisc == Root(EmptyMap, FValues(Sub(DiscriminatorForm)))
SFatal == Root("d" :> Sub(FRef("d")),
               FProperties("a" :> StringSchema @@ "b" :> Sub(FRef("d")), EmptyMap, TRUE))
SNested == Root("d1" :> Sub(FProperties("a" :> Sub(FRef("d2")), EmptyMap, TRUE))
                @@ "d2" :> Sub(FType("boolean")),
                FProperties("a" :> Sub(FRef("d1")) @@ "b" :> StringSchema, EmptyMap, TRUE))
SRefDisc == Root("d" :> Sub(DiscriminatorForm),
                 FProperties("a" :> Sub(FRef("d")) @@ "b" :> StringSchema, EmptyMap, TRUE))
SDiscNested == Root(EmptyMap,
                    FDiscriminator("t", "x" :> Sub(FProperties(
                        "a" :> Sub(FProperties(EmptyMap, EmptyMap, TRUE)), EmptyMap, TRUE))))
\* {"properties": {}}
SEmptyProps == Root(EmptyMap, FProperties(EmptyMap, EmptyMap, TRUE))
\* {"properties": {"a": {"optionalProperties": {"b": {"type": "string"}}}}}
SOptInside == Root(EmptyMap,
                   FProperties("a" :> Sub(FProperties(EmptyMap, "b" :> StringSchema, FALSE)),
                               EmptyMap, TRUE))

\* A discriminated branch whose required property follows a Ref to a
\* Properties schema and whose optional property is an array of them.
SDiscRefElems == Root("d" :> Sub(FProperties(EmptyMap, EmptyMap, TRUE)),
                      FDiscriminator("t", "x" :> Sub(FProperties(
                          "a" :> Sub(FRef("d")),
                          "b" :> Sub(FElements(Sub(FProperties(EmptyMap, EmptyMap, TRUE)))),
                          TRUE))))
\* A discriminated branch whose required property is a map of Properties
\* schemas and whose optional property is a Properties schema.
SDiscValuesOpt == Root(EmptyMap,
                       FDiscriminator("t", "x" :> Sub(FProperties(
                           "a" :> Sub(FValues(Sub(FProperties(EmptyMap, EmptyMap, TRUE)))),
                           "b" :> Sub(FProperties(EmptyMap, EmptyMap, TRUE)),
                           TRUE))))

TagX == "t" :> Str("x")
Case(sch, value) == [schema |-> sch, instance |-> value]
CasesOf(sch, values) == [i \in 1..Len(values) |-> Case(sch, values[i])]

Cases ==
    CasesOf(SEmpty, <<Null, Obj(EmptyMap)>>)
 \o CasesOf(SUint8, <<Num(1), Num(300), Frac(1), Str("x")>>)
 \o CasesOf(STimestamp, <<Str(Timestamp), Str("x"), Null>>)
 \o CasesOf(SEnum, <<Str("x"), Str("z"), Num(1)>>)
 \o CasesOf(SLoop, <<Obj(EmptyMap)>>)
 \o CasesOf(SStrings, <<Arr(<<Null, Null, Null, Null, Null>>),
                        Arr(<<Str("a"), Str("b"), Num(3)>>), Arr(<<>>), Null>>)
 \o CasesOf(SPerson, <<Obj("a" :> Str("John") @@ "b" :> Num(43)
                           @@ "t" :> Arr(<<Str("+44 1234567"), Str("+44 2345678")>>)),
                       Obj("b" :> Str("43")
                           @@ "t" :> Arr(<<Str("+44 1234567"), Num(442345678)>>)),
                       Obj(EmptyMap), Null>>)
 \o CasesOf(SRefBool, <<Bool(TRUE), Num(1)>>)
 \o CasesOf(SChain2, <<Bool(TRUE), Num(1)>>)
 \o CasesOf(SChain3, <<Bool(TRUE), Num(1)>>)
 \o CasesOf(SCycElems, <<Arr(<<>>), Arr(<<Arr(<<>>), Null>>), Arr(<<Arr(<<Arr(<<>>)>>)>>)>>)
 \o CasesOf(SDisc, <<Obj(TagX @@ "a" :> Str("ok")), Obj("t" :> Str("y")), Obj(EmptyMap),
                     Obj("t" :> Num(1)), Null, Obj(TagX @@ "a" :> Num(1) @@ "b" :> Num(2)),
                     Obj(TagX)>>)
 \o CasesOf(SStrict, <<Obj("a" :> Num(1) @@ "b" :> Num(2)), Obj("a" :> Num(1)),
                       Obj("b" :> Num(1) @@ "t" :> Num(2)), Null>>)
 \o CasesOf(SOptOnly, <<Obj("a" :> Num(1)), Obj("b" :> Num(1)), Null>>)
 \o CasesOf(SSibling, <<Obj("a" :> Obj(TagX @@ "a" :> Str("ok")) @@ "b" :> Num(1)),
                        Obj("a" :> Obj(EmptyMap) @@ "b" :> Str("ok")),
                        Obj("a" :> Null), Obj(EmptyMap)>>)
 \o CasesOf(SOptSibling, <<Obj("a" :> Obj(TagX @@ "a" :> Str("ok")) @@ "b" :> Num(1)),
                           Obj("a" :> Obj("t" :> Str("y")) @@ "b" :> Num(1))>>)
 \o CasesOf(SElemDisc, <<Arr(<<Obj(EmptyMap), Obj(EmptyMap)>>),
                         Arr(<<Obj(TagX @@ "a" :> Str("ok")), Obj(TagX @@ "a" :> Num(1))>>),
                         Arr(<<Obj("t" :> Num(1))>>), Null>>)
 \o CasesOf(SValues, <<Obj("a" :> Num(1) @@ "b" :> Str("x") @@ "t" :> Null), Obj(EmptyMap),
                       Null>>)
 \o CasesOf(SValuesDisc, <<Obj("a" :> Obj(EmptyMap) @@ "b" :> Obj("t" :> Str("y")))>>)
 \o CasesOf(SFatal, <<Obj("a" :> Num(1) @@ "b" :> Num(2)), Obj("a" :> Str("x")),
                      Obj(EmptyMap)>>)
 \o CasesOf(SNested, <<Obj("a" :> Obj("a" :> Num(1)) @@ "b" :> Num(2)),
                       Obj("a" :> Obj("a" :> Bool(TRUE)) @@ "b" :> Str("x")),
                       Obj("a" :> Null)>>)
 \o CasesOf(SRefDisc, <<Obj("a" :> Obj(EmptyMap) @@ "b" :> Num(1)),
                        Obj("a" :> Obj(TagX @@ "a" :> Num(1)) @@ "b" :> Num(1))>>)
 \o CasesOf(SDiscNested, <<Obj(TagX @@ "a" :> Obj("t" :> Num(1))),
                           Obj(TagX @@ "a" :> Obj("b" :> Num(1)) @@ "b" :> Num(1))>>)
 \o CasesOf(SEmptyProps, <<Num(1), Arr(<<>>), Obj("a" :> Num(1))>>)
 \o CasesOf(SOptInside, <<Obj("a" :> Str("x")), Obj("a" :> Obj("b" :> Num(1)))>>)
 \o CasesOf(SDiscRefElems, <<Obj(TagX @@ "a" :> Obj("t" :> Num(1))
                                 @@ "b" :> Arr(<<Obj("t" :> Num(1)), Obj(EmptyMap)>>)),
                             Obj(TagX @@ "a" :> Obj("t" :> Num(1)))>>)
 \o CasesOf(SDiscValuesOpt, <<Obj(TagX @@ "a" :> Obj("a" :> Obj("t" :> Num(1)))
                                  @@ "b" :> Obj("t" :> Num(1) @@ "a" :> Num(2)))>>)

(***************************************************************************)
(* The state machine: Config::new, the setters, Validator::new_with_config *)
(* and Validator::validate.                                                *)
(***************************************************************************)
Config_default ==
    [max_errors |-> DefaultMaxErrors,
     max_depth |-> DefaultMaxDepth,
     strict_instance_semantics |-> FALSE]

NoVm == [ret |-> "None"]
NoResult == [kind |-> "None"]
\* No register call has been made.
NoCall == [ret |-> [kind |-> "None"]]

\* The caller has not entered the register / fetch loop.
NoLoop == [pc |-> "none", registered |-> {}, ord |-> None]

\* Config::new
ValidatorInit ==
    /\ pc = "config"
    /\ config = Config_default
    /\ schema = SEmpty
    /\ instance = Null
    /\ iter = CHOOSE order \in KeyOrders : TRUE
    /\ vm = NoVm
    /\ result = NoResult

\* Registry::new
RegistryInit ==
    /\ schemas = EmptyMap
    /\ missing_ids = <<>>
    /\ call = NoCall

\* No document has been read, and Registry::new of schema.rs.
CanonInit ==
    /\ wire = Null
    /\ parsed = NoResult
    /\ round_trip = None
    /\ canonical = NoResult
    /\ uri_schemas = EmptyMap
    /\ uri_call = NoCall

Init ==
    /\ ValidatorInit
    /\ RegistryInit
    /\ world = EmptyMap
    /\ loop = NoLoop
    /\ CanonInit

Config_max_errors ==
    /\ pc = "config"
    /\ \E n \in 0..MaxErrorsCfg : config' = [config EXCEPT !.max_errors = n]
    /\ UNCHANGED <<pc, schema, instance, iter, vm, result>>
    /\ UNCHANGED registry_vars
    /\ UNCHANGED canon_vars

Config_max_depth ==
    /\ pc = "config"
    /\ \E n \in 0..MaxDepthCfg : config' = [config EXCEPT !.max_depth = n]
    /\ UNCHANGED <<pc, schema, instance, iter, vm, result>>
    /\ UNCHANGED registry_vars
    /\ UNCHANGED canon_vars

Config_strict_instance_semantics ==
    /\ pc = "config"
    /\ \E b \in BOOLEAN : config' = [config EXCEPT !.strict_instance_semantics = b]
    /\ UNCHANGED <<pc, schema, instance, iter, vm, result>>
    /\ UNCHANGED registry_vars
    /\ UNCHANGED canon_vars

Validator_new_with_config ==
    /\ pc = "config"
    /\ pc' = "ready"
    /\ UNCHANGED <<config, schema, instance, iter, vm, result>>
    /\ UNCHANGED registry_vars
    /\ UNCHANGED canon_vars

\* Validator::validate, which calls vm::validate with the fields of the Config.
\* With max_depth = 0 the depth check of Form::Ref never fires (there is always
\* at least one frame), so a recursion that passes StackLimit frames is
\* unbounded and overflows any stack.  With max_depth > StackLimit the report
\* would only reflect the bound of the model, and the call is not explored.
Validator_validate ==
    /\ pc = "ready"
    /\ \E c \in 1..Len(Cases), order \in KeyOrders :
          /\ schema' = Cases[c].schema
          /\ instance' = Cases[c].instance
          /\ iter' = order
          /\ vm' = run_vm(config.max_errors, config.max_depth,
                          config.strict_instance_semantics,
                          Cases[c].schema, Cases[c].instance, order)
          /\ vm'.ret = "Overflow" => config.max_depth = 0
          /\ result' = validate_result(vm')
    /\ pc' = "done"
    /\ UNCHANGED config
    /\ UNCHANGED registry_vars
    /\ UNCHANGED canon_vars

\* The caller is done with the returned Result; the Validator (&self in
\* validate) is unchanged and can validate again.
Caller_drop_result ==
    /\ pc = "done"
    /\ pc' = "ready"
    /\ schema' = SEmpty
    /\ instance' = Null
    /\ iter' = CHOOSE order \in KeyOrders : TRUE
    /\ vm' = NoVm
    /\ result' = NoResult
    /\ UNCHANGED config
    /\ UNCHANGED registry_vars
    /\ UNCHANGED canon_vars

Next ==
    \/ Config_max_errors
    \/ Config_max_depth
    \/ Config_strict_instance_semantics
    \/ Validator_new_with_config
    \/ Validator_validate
    \/ Caller_drop_result

Spec == Init /\ [][Next]_vars

(***************************************************************************)
(* Reading the outcome of a validate call.                                 *)
(***************************************************************************)
Done == pc = "done"

\* validate returned a list and evaluation was not cut short by max_errors.
Complete == Done /\ vm.ret = "Ok"

Range(s) == {s[i] : i \in DOMAIN s}
Count(s, e) == Cardinality({i \in DOMAIN s : s[i] = e})
SameBag(s1, s2) == \A e \in Range(s1) \cup Range(s2) : Count(s1, e) = Count(s2, e)
StartsWith(s, prefix) == Len(s) >= Len(prefix) /\ SubSeq(s, 1, Len(prefix)) = prefix

RECURSIVE Sum(_)
Sum(f) ==
    IF DOMAIN f = {} THEN 0
    ELSE LET k == CHOOSE j \in DOMAIN f : TRUE
         IN  f[k] + Sum([j \in DOMAIN f \ {k} |-> f[j]])

\* The validate call of the current state, repeated with another max_errors
\* and another iteration order of the maps.
Rerun(max_errors, order) ==
    run_vm(max_errors, config.max_depth, config.strict_instance_semantics,
           schema, instance, order)

\* The errors eval appends when it is entered for sub-schema sch and value,
\* with the instance path at instance_path, the current frame's schema path at
\* schema_path and parent_tag handed down, under the configuration of the
\* current state and with no cap on the errors.
ErrorsAt(sch, value, instance_path, schema_path, parent_tag) ==
    eval([NewVm(0, config.max_depth, config.strict_instance_semantics, schema, iter)
              EXCEPT !.instance_tokens = instance_path,
                     !.schema_tokens = <<schema_path>>],
         sch, value, parent_tag).errors

(***************************************************************************)
(* C1.  Depth safety: for every schema, instance and configuration,        *)
(* validate returns either a list of validation errors or the fatal error  *)
(* MaxDepthExceeded; it never recurses without bound.                      *)
(* With max_depth = 0 the test schema_tokens.len() == max_depth never      *)
(* holds, and a cyclic schema recurses until the stack is exhausted.       *)
(***************************************************************************)
C1_DepthSafety ==
    Done => /\ result.kind \in {"Ok", "Err"}
            /\ vm.ret # "Overflow"

(***************************************************************************)
(* C2.  Error cap: with max_errors > 0 the returned list has at most       *)
(* max_errors entries, and exactly max_errors (the first max_errors of the *)
(* uncapped run) whenever the uncapped validation of the same schema and   *)
(* instance yields at least max_errors errors; with max_errors = 0         *)
(* evaluation is never cut short on the count; reaching the cap yields a   *)
(* successful result carrying the collected errors.                        *)
(***************************************************************************)
C2_ErrorCap ==
    Done =>
        /\ (config.max_errors > 0 /\ result.kind = "Ok") =>
                Len(result.errors) <= config.max_errors
        /\ config.max_errors > 0 =>
                \A order \in KeyOrders :
                    LET uncapped == Rerun(0, order)
                    IN  (uncapped.ret = "Ok" /\ Len(uncapped.errors) >= config.max_errors) =>
                            /\ result.kind = "Ok"
                            /\ Len(result.errors) = config.max_errors
                            /\ order = iter =>
                                 result.errors = SubSeq(uncapped.errors, 1, config.max_errors)
        /\ config.max_errors = 0 => vm.ret # "Internal"
        /\ vm.ret = "Internal" =>
                /\ result.kind = "Ok"
                /\ result.errors = vm.errors
                /\ Len(result.errors) = config.max_errors

\* The cap of the max_errors test is reached: three of five errors are returned.
C2_Witness ==
    /\ Done
    /\ config.max_errors = 3
    /\ vm.ret = "Internal"
    /\ result.kind = "Ok"
    /\ Len(result.errors) = 3
    /\ Len(Rerun(0, iter).errors) = 5

(***************************************************************************)
(* C3.  Whenever evaluation reaches a Ref while the number of active       *)
(* schema frames equals max_depth, validate returns the fatal error        *)
(* MaxDepthExceeded and no list of validation errors, even when errors had *)
(* already been accumulated.  (eval returns EvalError::Actual at that Ref  *)
(* and nowhere else, with the Vm as it was on reaching the Ref.)           *)
(***************************************************************************)
C3_MaxDepthIsFatal ==
    Done =>
        /\ vm.ret = "Actual" =>
                /\ Len(vm.schema_tokens) = config.max_depth
                /\ result = [kind |-> "Err", error |-> "MaxDepthExceeded"]
                /\ "errors" \notin DOMAIN result
        \* A root Ref is reached with one active frame.
        /\ (schema.form.f = "Ref" /\ config.max_depth = 1) => result.kind = "Err"
        /\ result.kind = "Err" => vm.ret = "Actual"

\* A Ref is reached at the depth limit after an error was recorded.
C3_Witness ==
    /\ Done
    /\ vm.ret = "Actual"
    /\ Len(vm.schema_tokens) = config.max_depth
    /\ Len(vm.errors) > 0
    /\ result.kind = "Err"

(***************************************************************************)
(* C4.  With max_depth = n exactly n nested references are followed: a     *)
(* chain of n nested Refs is evaluated normally, and MaxDepthExceeded is   *)
(* returned only when a further nested Ref is attempted (n = 32 by         *)
(* default).  The root frame counts in schema_tokens.len(), so the code    *)
(* follows n - 1 references and fails on the n-th.                         *)
(***************************************************************************)
\* The references followed and not yet returned from: one frame each.
NestedRefsFollowed == Len(vm.schema_tokens) - 1

\* The length of the chain of Refs the root schema starts with (cut off at StackLimit).
RECURSIVE RefChain(_, _)
RefChain(sch, fuel) ==
    IF sch.form.f = "Ref" /\ fuel > 0
    THEN 1 + RefChain(schema.definitions.v[sch.form.def], fuel - 1)
    ELSE 0

C4_FollowsMaxDepthRefs ==
    Done =>
        /\ result.kind = "Err" => NestedRefsFollowed = config.max_depth
        /\ (config.max_depth > 0 /\ RefChain(schema, StackLimit) <= config.max_depth
              /\ ~is_array(instance)) =>
                result.kind = "Ok"

(***************************************************************************)
(* C5.  Error-set determinism: with max_errors = 0 and no depth overflow,  *)
(* the set of (instance_path, schema_path) pairs validate returns is the   *)
(* same whatever order the maps are iterated in.                           *)
(***************************************************************************)
C5_ErrorSetDeterminism ==
    (Complete /\ config.max_errors = 0) =>
        \A order \in KeyOrders :
            LET other == Rerun(0, order)
            IN  other.ret = "Ok" => Range(other.errors) = Range(result.errors)

\* As ErrorsAt, with the whole stack of schema frames given.
ErrorsInFrames(sch, value, instance_path, frames, parent_tag) ==
    eval([NewVm(0, config.max_depth, config.strict_instance_semantics, schema, iter)
              EXCEPT !.instance_tokens = instance_path,
                     !.schema_tokens = frames],
         sch, value, parent_tag).errors

\* The errors of a list whose instance path is, or starts with, a given path.
ErrorsExactlyAt(errs, instance_path) ==
    SelectSeq(errs, LAMBDA e : e.instance_path = instance_path)
ErrorsBelow(errs, instance_path) ==
    SelectSeq(errs, LAMBDA e : StartsWith(e.instance_path, instance_path))

(***************************************************************************)
(* C6.  Properties rule on an object instance, at instance path I and      *)
(* schema path P: a required key k absent from the instance yields exactly *)
(* one error (I, P/properties/k); a required key present yields exactly    *)
(* the errors of its sub-schema evaluated at I/k and P/properties/k; an    *)
(* optional key present yields those of its sub-schema at I/k and          *)
(* P/optionalProperties/k; an absent optional key yields none; whatever    *)
(* the forms of the sibling sub-schemas.  Stated for the root schema       *)
(* (I and P empty), without strict instance semantics.                     *)
(***************************************************************************)
C6_RequiredErrors(k) ==
    IF k \in DOMAIN instance.v
    THEN ErrorsAt(schema.form.required[k], instance.v[k], <<k>>, <<"properties", k>>, None)
    ELSE <<ValidationError(<<>>, <<"properties", k>>)>>

C6_OptionalErrors(k) ==
    IF k \in DOMAIN instance.v
    THEN ErrorsAt(schema.form.optional[k], instance.v[k], <<k>>,
                  <<"optionalProperties", k>>, None)
    ELSE <<>>

C6_PropertiesRule ==
    (Complete /\ config.max_errors = 0 /\ ~config.strict_instance_semantics
        /\ schema.form.f = "Properties" /\ is_object(instance)) =>
        LET required == DOMAIN schema.form.required
            optional == DOMAIN schema.form.optional
            all == Range(result.errors)
                     \cup UNION {Range(C6_RequiredErrors(k)) : k \in required}
                     \cup UNION {Range(C6_OptionalErrors(k)) : k \in optional}
        IN  \A e \in all :
                Count(result.errors, e) =
                    Sum([k \in required |-> Count(C6_RequiredErrors(k), e)])
                  + Sum([k \in optional |-> Count(C6_OptionalErrors(k), e)])

(***************************************************************************)
(* C7.  Elements rule at instance path I and schema path P: a non-array    *)
(* instance yields exactly one error (I, P/elements); an array yields, for *)
(* each index i, exactly the errors of the sub-schema evaluated on element *)
(* i at I/str(i) and P/elements, the same schema path for every index.     *)
(* Stated for the root schema (I and P empty).                             *)
(***************************************************************************)
C7_ElementErrors(i) ==
    ErrorsAt(schema.form.sub, instance.v[i], <<ToString(i - 1)>>, <<"elements">>, None)

C7_ElementsRule ==
    (Complete /\ config.max_errors = 0 /\ schema.form.f = "Elements") =>
        IF is_array(instance)
        THEN LET indices == DOMAIN instance.v
                 all == Range(result.errors)
                          \cup UNION {Range(C7_ElementErrors(i)) : i \in indices}
             IN  \A e \in all :
                     Count(result.errors, e) =
                         Sum([i \in indices |-> Count(C7_ElementErrors(i), e)])
        ELSE result.errors = <<ValidationError(<<>>, <<"elements">>)>>

(***************************************************************************)
(* C8.  Ref frames.  As claimed: every error emitted while evaluating the  *)
(* definition reached through Ref(def) has a schema path that begins with  *)
(* definitions/def.  That fails when the definition itself follows a Ref:  *)
(* the error then begins with the inner definition's name.                 *)
(***************************************************************************)
C8_PathsBeginWithTheRef ==
    (Complete /\ config.max_errors = 0 /\ schema.form.f = "Ref") =>
        \A e \in Range(result.errors) :
            StartsWith(e.schema_path, <<"definitions", schema.form.def>>)

(***************************************************************************)
(* C8, amended.  Ref frames: a Ref(def) evaluated at instance path I       *)
(* yields exactly the errors of the definition evaluated at instance path  *)
(* I in a new frame whose schema path starts afresh at definitions/def, so *)
(* every error emitted under it begins with definitions/d, d being the     *)
(* definition of the innermost Ref under evaluation, and carries nothing   *)
(* of the referrer's path; once the Ref has returned the frame is gone and *)
(* the referrer's errors carry the referrer's own schema path again.       *)
(* Stated for a root Ref, and for a Ref that is a required property of the *)
(* root next to siblings of Type form.                                     *)
(***************************************************************************)
C8_InDefinition(e) ==
    /\ Len(e.schema_path) >= 2
    /\ e.schema_path[1] = "definitions"
    /\ e.schema_path[2] \in DOMAIN schema.definitions.v

C8_RefFrames ==
    (Complete /\ config.max_errors = 0) =>
        /\ schema.form.f = "Ref" =>
              LET def == schema.form.def
              IN  /\ result.errors =
                        ErrorsInFrames(schema.definitions.v[def], instance, <<>>,
                                       << <<>>, <<"definitions", def>> >>, None)
                  /\ \A e \in Range(result.errors) : C8_InDefinition(e)
                  /\ vm.schema_tokens = << <<>> >>
        /\ (schema.form.f = "Properties" /\ is_object(instance)
              /\ ~config.strict_instance_semantics
              /\ DOMAIN schema.form.optional = {}
              /\ \A k \in DOMAIN schema.form.required :
                     schema.form.required[k].form.f \in {"Ref", "Type"}) =>
              \A k \in DOMAIN schema.form.required \cap DOMAIN instance.v :
                  LET sub == schema.form.required[k]
                      below == ErrorsBelow(result.errors, <<k>>)
                  IN  IF sub.form.f = "Ref"
                      THEN /\ SameBag(below,
                                ErrorsInFrames(schema.definitions.v[sub.form.def],
                                               instance.v[k], <<k>>,
                                               << <<>>, <<"definitions", sub.form.def>> >>,
                                               None))
                           /\ \A e \in Range(below) : C8_InDefinition(e)
                      ELSE \A e \in Range(below) :
                               e.schema_path = <<"properties", k, "type">>

\* A definition reached through a Ref below property a emits an error of its
\* own frame, and the sibling b, evaluated after it, one of the root's frame.
C8_Witness ==
    /\ Complete
    /\ config.max_errors = 0
    /\ schema.form.f = "Properties"
    /\ iter["a"] < iter["b"]
    /\ \E e \in Range(result.errors) :
           StartsWith(e.instance_path, <<"a">>) /\ C8_InDefinition(e)
    /\ \E e \in Range(result.errors) :
           e.instance_path = <<"b">> /\ e.schema_path = <<"properties", "b", "type">>

(***************************************************************************)
(* C9.  Discriminator rule at instance path I and schema path P: a         *)
(* non-object yields exactly one error; an object without the tag exactly  *)
(* one error (I, P/discriminator/tag); a tag value that is not a string    *)
(* exactly one error (I/tag, P/discriminator/tag); a string not in the     *)
(* mapping exactly one error (I/tag, P/discriminator/mapping); a string v  *)
(* in the mapping exactly the errors of mapping[v] evaluated on the same   *)
(* instance at I and P/discriminator/mapping/v.  Stated for the root       *)
(* schema, and for a discriminator that is a required property of the      *)
(* root.                                                                   *)
(***************************************************************************)
C9_Rule(errs, form, value, I, P) ==
    IF ~is_object(value) THEN Len(errs) = 1
    ELSE IF form.tag \notin DOMAIN value.v
    THEN errs = <<ValidationError(I, P \o <<"discriminator", "tag">>)>>
    ELSE LET tag_value == value.v[form.tag]
         IN  IF ~is_string(tag_value)
             THEN errs = <<ValidationError(I \o <<form.tag>>,
                                           P \o <<"discriminator", "tag">>)>>
             ELSE IF tag_value.v \notin DOMAIN form.mapping
             THEN errs = <<ValidationError(I \o <<form.tag>>,
                                           P \o <<"discriminator", "mapping">>)>>
             ELSE SameBag(errs,
                          ErrorsAt(form.mapping[tag_value.v], value, I,
                                   P \o <<"discriminator", "mapping", tag_value.v>>,
                                   Some(form.tag)))

C9_DiscriminatorRule ==
    (Complete /\ config.max_errors = 0) =>
        /\ schema.form.f = "Discriminator" =>
              C9_Rule(result.errors, schema.form, instance, <<>>, <<>>)
        /\ (schema.form.f = "Properties" /\ is_object(instance)) =>
              \A k \in DOMAIN schema.form.required \cap DOMAIN instance.v :
                  schema.form.required[k].form.f = "Discriminator" =>
                      C9_Rule(ErrorsAt(schema.form.required[k], instance.v[k], <<k>>,
                                       <<"properties", k>>, None),
                              schema.form.required[k].form, instance.v[k], <<k>>,
                              <<"properties", k>>)

\* The tag's value selects a mapped schema, which rejects the instance.
C9_Witness ==
    /\ Complete
    /\ config.max_errors = 0
    /\ schema.form.f = "Discriminator"
    /\ is_object(instance)
    /\ schema.form.tag \in DOMAIN instance.v
    /\ is_string(instance.v[schema.form.tag])
    /\ instance.v[schema.form.tag].v \in DOMAIN schema.form.mapping
    /\ \E e \in Range(result.errors) :
           StartsWith(e.schema_path, <<"discriminator", "mapping", "x">>)

(***************************************************************************)
(* C10.  Strict instance semantics: with strict_instance_semantics on, a   *)
(* Properties schema evaluated on an object at instance path I emits       *)
(* exactly one error with instance path I/k for each instance key k that   *)
(* is not required, not optional and not the tag handed down by the        *)
(* directly enclosing discriminator; the tag key of a discriminated branch *)
(* is never flagged; with strict_instance_semantics off an undeclared key  *)
(* produces no error.  Stated for a root Properties schema and for the     *)
(* branch selected by a root discriminator (I empty).                      *)
(***************************************************************************)
C10_Rule(form, parent_tag) ==
    \A k \in DOMAIN instance.v :
        LET at == Len(ErrorsExactlyAt(result.errors, <<k>>))
            declared == k \in DOMAIN form.required \cup DOMAIN form.optional
            handed == parent_tag.some /\ k = parent_tag.v
            lenient == run_vm(0, config.max_depth, FALSE, schema, instance, iter).errors
        IN  IF ~declared /\ ~handed
            THEN at = IF config.strict_instance_semantics THEN 1 ELSE 0
            ELSE at = Len(ErrorsExactlyAt(lenient, <<k>>))

C10_StrictInstance ==
    (Complete /\ config.max_errors = 0 /\ is_object(instance)) =>
        /\ schema.form.f = "Properties" => C10_Rule(schema.form, None)
        /\ (schema.form.f = "Discriminator"
              /\ schema.form.tag \in DOMAIN instance.v
              /\ is_string(instance.v[schema.form.tag])
              /\ instance.v[schema.form.tag].v \in DOMAIN schema.form.mapping) =>
              /\ C10_Rule(schema.form.mapping[instance.v[schema.form.tag].v].form,
                          Some(schema.form.tag))
              /\ ErrorsExactlyAt(result.errors, <<schema.form.tag>>) = <<>>

\* Under strict instance semantics a discriminated branch flags the undeclared
\* key b and not the tag t.
C10_Witness ==
    /\ Complete
    /\ config.max_errors = 0
    /\ config.strict_instance_semantics
    /\ schema.form.f = "Discriminator"
    /\ is_object(instance)
    /\ {"t", "b"} \subseteq DOMAIN instance.v
    /\ Len(ErrorsExactlyAt(result.errors, <<"b">>)) = 1
    /\ ErrorsExactlyAt(result.errors, <<"t">>) = <<>>

(***************************************************************************)
(* C11.  Properties on an instance that is not an object emits exactly one *)
(* error, at the current instance path; its schema path is the current     *)
(* schema path extended by `properties` when has_required is true (also    *)
(* when the required map is empty) and by `optionalProperties` otherwise;  *)
(* no error per key is emitted.  Stated for a Properties schema at the     *)
(* root, and for one that is a required property of the root.              *)
(***************************************************************************)
C11_Keyword(form) == IF form.has_required THEN "properties" ELSE "optionalProperties"

C11_Rule(errs, form, I, P) == errs = <<ValidationError(I, P \o <<C11_Keyword(form)>>)>>

C11_PropertiesNonObject ==
    (Done /\ result.kind = "Ok") =>
        /\ (schema.form.f = "Properties" /\ ~is_object(instance)) =>
              C11_Rule(result.errors, schema.form, <<>>, <<>>)
        /\ (schema.form.f = "Properties" /\ is_object(instance)) =>
              \A k \in DOMAIN schema.form.required \cap DOMAIN instance.v :
                  (schema.form.required[k].form.f = "Properties"
                      /\ ~is_object(instance.v[k])) =>
                      C11_Rule(ErrorsAt(schema.form.required[k], instance.v[k], <<k>>,
                                        <<"properties", k>>, None),
                               schema.form.required[k].form, <<k>>, <<"properties", k>>)

\* A schema with no properties keyword has rejected an instance that is not an object.
C11_Witness ==
    /\ Done
    /\ result.kind = "Ok"
    /\ schema.form.f = "Properties"
    /\ ~schema.form.has_required
    /\ ~is_object(instance)
    /\ result.errors = <<ValidationError(<<>>, <<"optionalProperties">>)>>


(***************************************************************************)
(* The Registry (src/src/registry.rs).                                     *)
(*                                                                         *)
(* registry.rs reads a schema through root_data() (Some for a root schema, *)
(* holding its id and its definitions) and form(); a reference is          *)
(* Form::Ref(id, def), id the target document (None: the anonymous         *)
(* document) and def the definition named in it, if any.                   *)
(***************************************************************************)
RSub(form) == [root_data |-> None, form |-> form]
RRoot(id, defs, form) ==
    [root_data |-> Some([id |-> id, definitions |-> defs]), form |-> form]
FRefTo(id, def) == [f |-> "Ref", id |-> id, def |-> def]

Urls == {"u1", "u2", "u3"}
\* Option<Url>, the keys of Registry.schemas.
Ids == {None} \cup {Some(u) : u \in Urls}

\* The iteration orders of one register call: ids ranks the entries of the
\* schemas hash map (and, through them, those of the HashSet of missing ids),
\* keys ranks the keys of the maps inside a schema.
IdOrders == {o \in [Ids -> 1..Cardinality(Ids)] : \A i, j \in Ids : i # j => o[i] # o[j]}
RegistryOrders == [ids : IdOrders, keys : {o \in KeyOrders : o["t"] = Cardinality(Keys)}]

\* JslError
NonRoot == [e |-> "NonRoot"]
NoSuchDefinition(id, definition) ==
    [e |-> "NoSuchDefinition", id |-> id, definition |-> definition]

\* The HashSet `out` of compute_missing_ids, with the Result of the call in progress.
NewOut == [out |-> {}, ret |-> "Ok", error |-> None]

RECURSIVE compute_missing_ids(_, _, _, _)
RECURSIVE compute_missing_ids_values(_, _, _, _, _, _)

\* for schema in map.values() { self.compute_missing_ids(out, schema)?; }
compute_missing_ids_values(self_schemas, acc, map, keys, i, ord) ==
    IF i > Len(keys) THEN acc
    ELSE Try(compute_missing_ids(self_schemas, acc, map[keys[i]], ord),
             LAMBDA w : compute_missing_ids_values(self_schemas, w, map, keys, i + 1, ord))

\* A variant of compute_missing_ids_definitions that leaves the definitions out.
compute_missing_ids_definitions_skipped(self_schemas, acc, sch, ord) == acc

\* if let Some(root) = schema.root_data() { for def in root.definitions().values() .. }
compute_missing_ids_definitions(self_schemas, acc, sch, ord) ==
    IF sch.root_data.some
    THEN LET definitions == sch.root_data.v.definitions
         IN  compute_missing_ids_values(self_schemas, acc, definitions,
                                        KeySeq(DOMAIN definitions, ord.keys), 1, ord)
    ELSE acc

\* A variant of compute_missing_ids_ref that also reports the stored documents
\* that are referred to.
compute_missing_ids_ref_always_out(self_schemas, acc, id, def) ==
    IF id \in DOMAIN self_schemas
           /\ def.some /\ def.v \notin DOMAIN self_schemas[id].root_data.v.definitions
    THEN [acc EXCEPT !.ret = "Err", !.error = Some(NoSuchDefinition(id, def.v))]
    ELSE IF id.some THEN [acc EXCEPT !.out = @ \cup {id.v}] ELSE acc

\* A variant of compute_missing_ids_ref that fails on a definition named in a
\* document that is not stored.
compute_missing_ids_ref_eager(self_schemas, acc, id, def) ==
    IF id \in DOMAIN self_schemas
    THEN IF def.some /\ def.v \notin DOMAIN self_schemas[id].root_data.v.definitions
         THEN [acc EXCEPT !.ret = "Err", !.error = Some(NoSuchDefinition(id, def.v))]
         ELSE acc
    ELSE IF def.some
         THEN [acc EXCEPT !.ret = "Err", !.error = Some(NoSuchDefinition(id, def.v))]
         ELSE [acc EXCEPT !.out = @ \cup {id.v}]

\* Form::Ref(id, def): the target is stored and must hold the definition, or
\* the target is missing.
compute_missing_ids_ref(self_schemas, acc, id, def) ==
    IF id \in DOMAIN self_schemas
    THEN LET refd_root_data == self_schemas[id].root_data
         IN  IF ~refd_root_data.some THEN [acc EXCEPT !.ret = "Panic"]
             ELSE IF def.some /\ def.v \notin DOMAIN refd_root_data.v.definitions
             THEN [acc EXCEPT !.ret = "Err", !.error = Some(NoSuchDefinition(id, def.v))]
             ELSE acc
    ELSE IF id.some THEN [acc EXCEPT !.out = @ \cup {id.v}]
         ELSE [acc EXCEPT !.ret = "Panic"]

compute_missing_ids(self_schemas, acc, sch, ord) ==
    Try(compute_missing_ids_definitions(self_schemas, acc, sch, ord), LAMBDA w :
        LET form == sch.form
        IN  CASE form.f = "Ref" -> compute_missing_ids_ref(self_schemas, w, form.id, form.def)
              [] form.f = "Elements" -> compute_missing_ids(self_schemas, w, form.sub, ord)
              [] form.f = "Properties" ->
                    Try(compute_missing_ids_values(self_schemas, w, form.required,
                            KeySeq(DOMAIN form.required, ord.keys), 1, ord),
                        LAMBDA x : compute_missing_ids_values(self_schemas, x, form.optional,
                            KeySeq(DOMAIN form.optional, ord.keys), 1, ord))
              [] form.f = "Values" -> compute_missing_ids(self_schemas, w, form.sub, ord)
              [] form.f = "Discriminator" ->
                    compute_missing_ids_values(self_schemas, w, form.mapping,
                        KeySeq(DOMAIN form.mapping, ord.keys), 1, ord)
              [] OTHER -> w)

\* missing_ids.into_iter().collect(): the Vec of the HashSet's elements.
collect(out, ord) ==
    LET ids == KeySeq({Some(u) : u \in out}, ord.ids)
    IN  [i \in 1..Len(ids) |-> ids[i].v]

Registry_new == [schemas |-> EmptyMap, missing_ids |-> <<>>]

Ok == [kind |-> "Ok"]
Err(error) == [kind |-> "Err", error |-> error]

\* A variant of register_root that keeps the schema already stored under the id.
register_root_keep_first(self, sch, id, ord) ==
    LET inserted == self.schemas @@ (id :> sch)
        acc == compute_missing_ids_values(inserted, NewOut, inserted,
                                          KeySeq(DOMAIN inserted, ord.ids), 1, ord)
    IN  CASE acc.ret = "Ok" ->
               [schemas |-> inserted, missing_ids |-> collect(acc.out, ord), ret |-> Ok]
          [] acc.ret = "Err" ->
               [schemas |-> inserted, missing_ids |-> self.missing_ids,
                ret |-> Err(acc.error.v)]
          [] OTHER ->
               [schemas |-> inserted, missing_ids |-> self.missing_ids,
                ret |-> [kind |-> "Panic"]]

\* A variant of register_root that looks references up in the schemas stored
\* before the insertion.
register_root_stale_lookup(self, sch, id, ord) ==
    LET inserted == (id :> sch) @@ self.schemas
        acc == compute_missing_ids_values(self.schemas, NewOut, inserted,
                                          KeySeq(DOMAIN inserted, ord.ids), 1, ord)
    IN  CASE acc.ret = "Ok" ->
               [schemas |-> inserted, missing_ids |-> collect(acc.out, ord), ret |-> Ok]
          [] acc.ret = "Err" ->
               [schemas |-> inserted, missing_ids |-> self.missing_ids,
                ret |-> Err(acc.error.v)]
          [] OTHER ->
               [schemas |-> inserted, missing_ids |-> self.missing_ids,
                ret |-> [kind |-> "Panic"]]

\* register, from the insertion on: the schema is stored under its id, the
\* missing ids are computed over all the stored schemas, and missing_ids is
\* assigned only when no compute_missing_ids call failed.
register_root(self, sch, id, ord) ==
    LET inserted == (id :> sch) @@ self.schemas
        acc == compute_missing_ids_values(inserted, NewOut, inserted,
                                          KeySeq(DOMAIN inserted, ord.ids), 1, ord)
    IN  CASE acc.ret = "Ok" ->
               [schemas |-> inserted, missing_ids |-> collect(acc.out, ord), ret |-> Ok]
          [] acc.ret = "Err" ->
               [schemas |-> inserted, missing_ids |-> self.missing_ids,
                ret |-> Err(acc.error.v)]
          [] OTHER ->
               [schemas |-> inserted, missing_ids |-> self.missing_ids,
                ret |-> [kind |-> "Panic"]]

\* A variant of register that stores a schema without root data as the
\* anonymous document before it reports NonRoot.
register_insert_first(self, sch, ord) ==
    IF ~sch.root_data.some
    THEN [schemas |-> (None :> sch) @@ self.schemas, missing_ids |-> self.missing_ids,
          ret |-> Err(NonRoot)]
    ELSE register_root(self, sch, sch.root_data.v.id, ord)

\* Registry::register.  The outcome is the Registry as the call leaves it and
\* the Result it returns (the returned slice is missing_ids itself).
register(self, sch, ord) ==
    IF ~sch.root_data.some
    THEN [schemas |-> self.schemas, missing_ids |-> self.missing_ids, ret |-> Err(NonRoot)]
    ELSE register_root(self, sch, sch.root_data.v.id, ord)

\* Registry::get, Registry::missing_ids, Registry::is_sealed
get(self, id) == IF id \in DOMAIN self.schemas THEN Some(self.schemas[id]) ELSE None
missing_ids_of(self) == self.missing_ids
is_sealed(self) == self.missing_ids = <<>>


(***************************************************************************)
(* The schemas register is applied to.  U1, U2 and U3 are three absolute   *)
(* URIs; no document with id U3 is ever registered.  A reference to the    *)
(* anonymous document occurs only inside the anonymous document.           *)
(***************************************************************************)
U1 == Some("u1")
U2 == Some("u2")
U3 == Some("u3")

\* {"elements": {"ref": "u1"}}, as the initial schema of the documentation
RAnonElems == RRoot(None, EmptyMap, FElements(RSub(FRefTo(U1, None))))
\* {"definitions": {"a": {"ref": "#a"}},
\*  "properties": {"a": {"ref": "u1#a"}}, "optionalProperties": {"b": {"ref": "u2"}}}
RAnonProps == RRoot(None, "a" :> RSub(FRefTo(None, Some("a"))),
                    FProperties("a" :> RSub(FRefTo(U1, Some("a"))),
                                "b" :> RSub(FRefTo(U2, None)), TRUE))
\* {"id": "u1", "definitions": {"a": {}}}
RU1Plain == RRoot(U1, "a" :> RSub(FEmpty), FEmpty)
\* {"id": "u1", "ref": "u2#a"}
RU1ToU2 == RRoot(U1, EmptyMap, FRefTo(U2, Some("a")))
\* {"id": "u1", "definitions": {"a": {"values": {"ref": "u3"}}, "b": {"ref": "#a"}},
\*  "discriminator": {"tag": "t", "mapping": {"a": {"ref": "u2"}}}}
RU1Wide == RRoot(U1, "a" :> RSub(FValues(RSub(FRefTo(U3, None))))
                     @@ "b" :> RSub(FRefTo(U1, Some("a"))),
                 FDiscriminator("t", "a" :> RSub(FRefTo(U2, None))))
\* {"id": "u2", "definitions": {"a": {}}}
RU2Plain == RRoot(U2, "a" :> RSub(FEmpty), FEmpty)
\* {"id": "u2", "ref": "u1#a"}
RU2ToU1 == RRoot(U2, EmptyMap, FRefTo(U1, Some("a")))
\* {"id": "u2", "definitions": {"a": {"ref": "u1#b"}, "b": {"ref": "u1#a"}}, "ref": "u3"}
RU2Wide == RRoot(U2, "a" :> RSub(FRefTo(U1, Some("b"))) @@ "b" :> RSub(FRefTo(U1, Some("a"))),
                 FRefTo(U3, None))
\* Sub-schemas, which are not root schemas.
RNonRoot == RSub(FType("string"))
RNonRootRef == RSub(FRefTo(U3, None))

RegisterInputs == {RAnonElems, RAnonProps, RU1Plain, RU1ToU2, RU1Wide,
                   RU2Plain, RU2ToU1, RU2Wide, RNonRoot, RNonRootRef}

(***************************************************************************)
(* The state machine of a Registry: any sequence of register calls on the  *)
(* Registry that Registry::new built.                                      *)
(***************************************************************************)
Registry_self == [schemas |-> schemas, missing_ids |-> missing_ids]

Registry_register ==
    /\ \E sch \in RegisterInputs, ord \in RegistryOrders :
          LET r == register(Registry_self, sch, ord)
          IN  /\ schemas' = r.schemas
              /\ missing_ids' = r.missing_ids
              /\ call' = [schema |-> sch, before |-> Registry_self, ret |-> r.ret]
    /\ UNCHANGED <<world, loop>>
    /\ UNCHANGED validator_vars
    /\ UNCHANGED canon_vars

RegistryNext == Registry_register

RegistrySpec == Init /\ [][RegistryNext]_vars

\* The Registry as the last register call left it, and what that call returned.
Registered == call.ret.kind # "None"
Succeeded == call.ret.kind = "Ok"
Failed == call.ret.kind = "Err"


\* The references occurring anywhere in a schema: in its form, nested under
\* elements, properties, optionalProperties, values and discriminator
\* mappings, and in its definitions.
RECURSIVE RefsOf(_)
RefsOf(sch) ==
    LET form == sch.form
        InMap(map) == UNION {RefsOf(map[k]) : k \in DOMAIN map}
        in_form == CASE form.f = "Ref" -> {[id |-> form.id, def |-> form.def]}
                     [] form.f \in {"Elements", "Values"} -> RefsOf(form.sub)
                     [] form.f = "Properties" -> InMap(form.required) \cup InMap(form.optional)
                     [] form.f = "Discriminator" -> InMap(form.mapping)
                     [] OTHER -> {}
    IN  in_form \cup (IF sch.root_data.some THEN InMap(sch.root_data.v.definitions) ELSE {})

\* The references of all the schemas a Registry stores.
StoredRefs(self) == UNION {RefsOf(self.schemas[id]) : id \in DOMAIN self.schemas}

\* The URIs some stored schema refers to and no stored schema has as its id.
Unresolved(self) ==
    {u \in Urls : Some(u) \notin DOMAIN self.schemas
                  /\ \E r \in StoredRefs(self) : r.id = Some(u)}

NoDuplicates(s) == \A i, j \in DOMAIN s : i # j => s[i] # s[j]

(***************************************************************************)
(* C12.  After every successful register the returned slice, which is      *)
(* missing_ids(), holds each exactly once precisely the URIs that are the  *)
(* target document of some Ref occurring anywhere in a stored root schema  *)
(* and that are not the id of a stored schema; a reference to the document *)
(* itself or to a stored document is never reported missing.               *)
(***************************************************************************)
C12_MissingIds ==
    Succeeded =>
        /\ NoDuplicates(missing_ids_of(Registry_self))
        /\ Range(missing_ids_of(Registry_self)) = Unresolved(Registry_self)

\* Two documents are missing while a stored schema refers to a stored document.
C12_Witness ==
    /\ Succeeded
    /\ Len(missing_ids) >= 2
    /\ \E r \in StoredRefs(Registry_self) : r.id \in DOMAIN schemas
    /\ \E id \in DOMAIN schemas :
          \E r \in RefsOf(schemas[id]) : r.id = id /\ id.some


\* The references of the stored schemas that name a definition their stored
\* target lacks.
Dangling(self) ==
    {r \in StoredRefs(self) :
        /\ r.id \in DOMAIN self.schemas
        /\ r.def.some
        /\ r.def.v \notin DOMAIN self.schemas[r.id].root_data.v.definitions}

\* Every reference of a stored schema targets a stored schema, and the
\* definition it names, if any, exists there.
Consistent(self) ==
    /\ \A r \in StoredRefs(self) : r.id \in DOMAIN self.schemas
    /\ Dangling(self) = {}

(***************************************************************************)
(* C13.  Sealed means consistent: in every state reachable by register     *)
(* calls, successful or failing, is_sealed() equals                        *)
(* missing_ids().is_empty(), and is_sealed() implies that every Ref of     *)
(* every stored schema targets a stored schema holding the definition it   *)
(* names.                                                                  *)
(* A register call that fails with NoSuchDefinition has already stored its *)
(* schema and leaves missing_ids as it was: a sealed Registry stays sealed *)
(* with a dangling reference in it.                                        *)
(***************************************************************************)
C13_SealedMeansConsistent ==
    /\ is_sealed(Registry_self) = (Len(missing_ids_of(Registry_self)) = 0)
    /\ is_sealed(Registry_self) => Consistent(Registry_self)

(***************************************************************************)
(* C15.  A register call that returns an error has no partial effect: the  *)
(* stored schemas, get for every id, missing_ids() and is_sealed() are     *)
(* after the call what they were before it.                                *)
(* The schema is inserted (registry.rs line 95) before the references are  *)
(* checked, and a NoSuchDefinition failure does not take it out again.     *)
(***************************************************************************)
C15_FailureHasNoEffect ==
    Failed =>
        /\ DOMAIN schemas = DOMAIN call.before.schemas
        /\ \A id \in Ids : get(Registry_self, id) = get(call.before, id)
        /\ missing_ids_of(Registry_self) = missing_ids_of(call.before)
        /\ is_sealed(Registry_self) = is_sealed(call.before)

(***************************************************************************)
(* C16.  register rejects a schema that is not a root schema with the      *)
(* error NonRoot, inserting nothing and leaving missing_ids as it was.     *)
(***************************************************************************)
C16_NonRootRejected ==
    (Registered /\ ~call.schema.root_data.some) =>
        /\ call.ret = Err(NonRoot)
        /\ schemas = call.before.schemas
        /\ missing_ids = call.before.missing_ids

\* A sub-schema was handed to a Registry that stores schemas and misses documents.
C16_Witness ==
    /\ Registered
    /\ ~call.schema.root_data.some
    /\ call.ret = Err(NonRoot)
    /\ DOMAIN schemas # {}
    /\ missing_ids # <<>>


\* The last register call was given a root schema whose id was already stored.
ReRegistered ==
    /\ Registered
    /\ call.schema.root_data.some
    /\ call.schema.root_data.v.id \in DOMAIN call.before.schemas

C18_DuplicateIdIsAnError == ReRegistered => Failed

(***************************************************************************)
(* C19.  register of a root schema fails with NoSuchDefinition{id,         *)
(* definition} exactly when, once the schema is inserted, some stored      *)
(* schema holds a Ref whose target is stored and lacks the definition      *)
(* named, be the Ref in the schema being registered or in one registered   *)
(* before; the error names such a Ref.  A Ref whose target is not stored   *)
(* never raises NoSuchDefinition: it is in the missing list of the call    *)
(* that succeeds.                                                          *)
(***************************************************************************)
C19_NoSuchDefinition ==
    (Registered /\ call.schema.root_data.some) =>
        /\ Failed <=> Dangling(Registry_self) # {}
        /\ Failed =>
              /\ call.ret.error.e = "NoSuchDefinition"
              /\ \E r \in Dangling(Registry_self) :
                    call.ret.error = NoSuchDefinition(r.id, r.def.v)
        /\ Succeeded =>
              \A r \in StoredRefs(Registry_self) :
                  r.id \notin DOMAIN schemas => r.id.v \in Range(missing_ids)

\* register failed on a Ref of a schema registered before, while another Ref
\* names a definition of a document that is not stored.
C19_Witness ==
    /\ Failed
    /\ call.ret.error.e = "NoSuchDefinition"
    /\ \A r \in RefsOf(call.schema) : r \notin Dangling(Registry_self)
    /\ \E r \in StoredRefs(Registry_self) : r.def.some /\ r.id \notin DOMAIN schemas

(***************************************************************************)
(* C20.  Registering a schema equal to the one already stored under the    *)
(* same id leaves get, missing_ids (as a set) and is_sealed unchanged, so  *)
(* a sealed Registry stays sealed; and no register call adds to            *)
(* missing_ids a URI that is the id of a stored schema.                    *)
(***************************************************************************)
C20_Idempotence ==
    /\ (ReRegistered
          /\ call.before.schemas[call.schema.root_data.v.id] = call.schema) =>
            /\ \A id \in Ids : get(Registry_self, id) = get(call.before, id)
            /\ Range(missing_ids_of(Registry_self)) = Range(missing_ids_of(call.before))
            /\ is_sealed(Registry_self) = is_sealed(call.before)
    /\ Registered =>
          \A u \in Range(missing_ids) \ Range(call.before.missing_ids) :
              Some(u) \notin DOMAIN schemas

\* A sealed Registry was given again a schema it stores.
C20_Witness ==
    /\ ReRegistered
    /\ Succeeded
    /\ call.before.schemas[call.schema.root_data.v.id] = call.schema
    /\ is_sealed(call.before)
    /\ is_sealed(Registry_self)
    /\ \E r \in RefsOf(call.schema) : r.id = call.schema.root_data.v.id


(***************************************************************************)
(* The register / fetch loop of the documentation of register:             *)
(*                                                                         *)
(*     let mut missing = registry.register(initial_schema)?;               *)
(*     while !missing.is_empty() {                                         *)
(*         let schema = fetch(&missing[0])?;                               *)
(*         missing = registry.register(schema)?;                           *)
(*     }                                                                   *)
(*                                                                         *)
(* world is the caller's fetch function: for each URI the root schema with *)
(* that id it returns, or None where it refuses.  loop.registered collects *)
(* the schemas the loop has handed to register; loop.ord is the iteration  *)
(* order of the hash maps during the run of the loop.  It is drawn once    *)
(* per run: every sequence of choices of missing[0] the loop can make is   *)
(* the sequence of some order (the one that ranks the URIs by the time     *)
(* they are fetched), since a fetched URI is stored and not missing again. *)
(***************************************************************************)
\* {"id": "u3", "definitions": {"a": {}}}
RU3Plain == RRoot(U3, "a" :> RSub(FEmpty), FEmpty)

Documents(u) ==
    CASE u = "u1" -> {RU1Plain, RU1ToU2, RU1Wide}
      [] u = "u2" -> {RU2Plain, RU2ToU1, RU2Wide}
      [] OTHER -> {RU3Plain}

Worlds == {w \in [Urls -> {None} \cup {Some(d) : d \in UNION {Documents(u) : u \in Urls}}] :
              \A u \in Urls : w[u].some => w[u].v \in Documents(u)}

InitialSchemas == {RAnonElems, RAnonProps, RU1Wide, RU2Wide}

fetch(u) == world[u]

LoopInit ==
    /\ ValidatorInit
    /\ RegistryInit
    /\ world \in Worlds
    /\ \E ord \in RegistryOrders : loop = [NoLoop EXCEPT !.ord = ord]
    /\ CanonInit

\* let mut missing = registry.register(initial_schema)?;
Loop_register_initial ==
    /\ loop.pc = "none"
    /\ \E sch \in InitialSchemas :
          LET r == register(Registry_self, sch, loop.ord)
          IN  /\ schemas' = r.schemas
              /\ missing_ids' = r.missing_ids
              /\ call' = [schema |-> sch, before |-> Registry_self, ret |-> r.ret]
              /\ loop' = [pc |-> IF r.ret.kind = "Ok" THEN "running" ELSE "failed",
                          registered |-> {sch}, ord |-> loop.ord]
    /\ UNCHANGED world
    /\ UNCHANGED validator_vars
    /\ UNCHANGED canon_vars

\* let schema = fetch(&missing[0])?; missing = registry.register(schema)?;
Loop_fetch_register ==
    /\ loop.pc = "running"
    /\ missing_ids # <<>>
    /\ \E fetched \in {fetch(missing_ids[1])} :
          IF ~fetched.some
          THEN /\ loop' = [loop EXCEPT !.pc = "failed"]
               /\ UNCHANGED <<schemas, missing_ids, call>>
          ELSE \E sch \in {fetched.v} :
                  LET r == register(Registry_self, sch, loop.ord)
                  IN  /\ schemas' = r.schemas
                      /\ missing_ids' = r.missing_ids
                      /\ call' = [schema |-> sch, before |-> Registry_self, ret |-> r.ret]
                      /\ loop' = [pc |-> IF r.ret.kind = "Ok" THEN "running" ELSE "failed",
                                  registered |-> loop.registered \cup {sch},
                                  ord |-> loop.ord]
    /\ UNCHANGED world
    /\ UNCHANGED validator_vars
    /\ UNCHANGED canon_vars

\* while !missing.is_empty() is left; main returns Ok(()).
Loop_exit ==
    /\ loop.pc = "running"
    /\ missing_ids = <<>>
    /\ loop' = [loop EXCEPT !.pc = "done"]
    /\ UNCHANGED <<schemas, missing_ids, call, world>>
    /\ UNCHANGED validator_vars
    /\ UNCHANGED canon_vars

LoopNext ==
    \/ Loop_register_initial
    \/ Loop_fetch_register
    \/ Loop_exit

\* The loop has a step to take: it is at its entry or inside the while.  This
\* is ENABLED <<LoopNext>>_vars: register and fetch return on every input, and
\* each step changes loop, schemas or call.
LoopCanStep == loop.pc \in {"none", "running"}

\* The loop is a sequential program: it takes its next step as long as it has
\* one.  That is weak fairness of LoopNext, written out with LoopCanStep for
\* ENABLED <<LoopNext>>_vars.
LoopFairness ==
    /\ WF_vars(Loop_exit)
    /\ []<>(~LoopCanStep) \/ []<><<LoopNext>>_vars

LoopSpec == LoopInit /\ [][LoopNext]_vars /\ LoopFairness

\* The document a reference resolves to: the stored one, or the one fetch returns.
Target(id) == IF id \in DOMAIN schemas THEN schemas[id] ELSE world[id.v].v

\* fetch returns a document for every URI, and every definition named by a
\* reference of a stored or fetchable schema exists in the document referred to.
LoopCanFinish ==
    /\ \A u \in Urls : world[u].some
    /\ \A sch \in {schemas[id] : id \in DOMAIN schemas} \cup {world[u].v : u \in Urls} :
          \A r \in RefsOf(sch) :
              r.def.some => r.def.v \in DOMAIN Target(r.id).root_data.v.definitions

(***************************************************************************)
(* C14.  The register / fetch loop: starting from one registered schema, a *)
(* caller that keeps taking a URI from the returned missing list, fetching *)
(* the root schema with that id and registering it reaches an empty        *)
(* missing list after finitely many iterations, when every referenced      *)
(* document can be fetched and every definition named exists; and when the *)
(* loop completes, every schema registered during the loop is still stored *)
(* and every reference of a stored schema is satisfied by a stored schema. *)
(***************************************************************************)
C14_RegisterFetchLoop ==
    /\ (loop.pc = "running" /\ LoopCanFinish) ~> (loop.pc = "done")
    /\ [](loop.pc = "done" =>
            /\ is_sealed(Registry_self)
            /\ Consistent(Registry_self)
            /\ loop.registered \subseteq {schemas[id] : id \in DOMAIN schemas})

\* The loop has completed after fetching all three documents.
C14_Witness ==
    /\ loop.pc = "done"
    /\ Cardinality(loop.registered) = 4
    /\ DOMAIN schemas = Ids


(***************************************************************************)
(* C27.  Path-stack balance: whenever Vm::eval returns normally, the       *)
(* instance-token stack, the number of schema frames and the token stack   *)
(* of the current schema frame are what they were when eval was entered.   *)
(* Stated for the eval call of validate, which is entered with no instance *)
(* token and one empty schema frame.                                       *)
(* The Discriminator arm pushes "discriminator" and returns without        *)
(* popping it.                                                             *)
(***************************************************************************)
C27_PathStackBalance ==
    Complete =>
        /\ vm.instance_tokens = <<>>
        /\ Len(vm.schema_tokens) = 1
        /\ Last(vm.schema_tokens) = <<>>


(***************************************************************************)
(* C30.  Scope of the tag exemption: the tag a discriminator hands down    *)
(* exempts only keys of the object the discriminator inspected; no tag     *)
(* reaches the sub-schemas of properties, optionalProperties, elements,    *)
(* values or a Ref target, so under strict instance semantics a nested     *)
(* object's key equal to the outer tag is flagged like any other           *)
(* undeclared key.                                                         *)
(* Undeclared is the set of instance paths of the keys that no Properties  *)
(* schema met on the way declares, the tag counting only for the mapped    *)
(* schema itself.  With strict_instance_semantics on, each of them carries *)
(* exactly one error, none of which the lenient run has, and there is no   *)
(* other difference in the number of errors.                               *)
(***************************************************************************)
RECURSIVE Undeclared(_, _, _, _)
Undeclared(sch, value, path, tag) ==
    LET form == sch.form
        Under(subs) ==
            UNION {Undeclared(subs[k], value.v[k], path \o <<k>>, None) :
                      k \in DOMAIN subs \cap DOMAIN value.v}
    IN  CASE form.f = "Ref" ->
                Undeclared(schema.definitions.v[form.def], value, path, None)
          [] form.f = "Elements" /\ is_array(value) ->
                UNION {Undeclared(form.sub, value.v[i], path \o <<ToString(i - 1)>>, None) :
                          i \in DOMAIN value.v}
          [] form.f = "Values" /\ is_object(value) ->
                UNION {Undeclared(form.sub, value.v[k], path \o <<k>>, None) :
                          k \in DOMAIN value.v}
          [] form.f = "Properties" /\ is_object(value) ->
                {path \o <<k>> :
                    k \in {j \in DOMAIN value.v :
                              /\ j \notin DOMAIN form.required \cup DOMAIN form.optional
                              /\ ~(tag.some /\ j = tag.v)}}
                \cup Under(form.required) \cup Under(form.optional)
          [] form.f = "Discriminator" /\ is_object(value) ->
                IF /\ form.tag \in DOMAIN value.v
                   /\ is_string(value.v[form.tag])
                   /\ value.v[form.tag].v \in DOMAIN form.mapping
                THEN Undeclared(form.mapping[value.v[form.tag].v], value, path,
                                Some(form.tag))
                ELSE {}
          [] OTHER -> {}

C30_TagExemptionScope ==
    (Complete /\ config.max_errors = 0 /\ config.strict_instance_semantics) =>
        LET lenient == run_vm(0, config.max_depth, FALSE, schema, instance, iter).errors
            flagged == Undeclared(schema, instance, <<>>, None)
        IN  /\ \A p \in flagged : /\ Len(ErrorsExactlyAt(result.errors, p)) = 1
                                  /\ ErrorsExactlyAt(lenient, p) = <<>>
            /\ Len(result.errors) = Len(lenient) + Cardinality(flagged)

\* Under a root discriminator with tag t, the key t of objects nested below a
\* Ref target and an element of an array is flagged, the object's own t is not.
C30_Witness ==
    /\ Complete
    /\ config.max_errors = 0
    /\ config.strict_instance_semantics
    /\ schema.form.f = "Discriminator"
    /\ schema.form.tag = "t"
    /\ Len(ErrorsExactlyAt(result.errors, <<"a", "t">>)) = 1
    /\ Len(ErrorsExactlyAt(result.errors, <<"b", "0", "t">>)) = 1
    /\ ErrorsExactlyAt(result.errors, <<"t">>) = <<>>


(***************************************************************************)
(* C28.  Registration order independence: for root schemas with pairwise   *)
(* distinct ids whose registration succeeds in every order, the final      *)
(* registry (get for every id, missing_ids as a set, is_sealed) is the     *)
(* same whatever order they are registered in.                             *)
(* Stated for two registrations that follow each other, from any registry  *)
(* a sequence of register calls has built: the schema A registered last    *)
(* and any schema B with another id, registered after A and before A.  Any *)
(* reordering of a finite set is a sequence of such exchanges.             *)
(***************************************************************************)
C28_IdOf(sch) == sch.root_data.v.id

C28_SameRegistry(r1, r2) ==
    /\ \A id \in Ids : get(r1, id) = get(r2, id)
    /\ Range(missing_ids_of(r1)) = Range(missing_ids_of(r2))
    /\ is_sealed(r1) = is_sealed(r2)

C28_OrderIndependence ==
    Succeeded =>
        \A B \in RegisterInputs, ord \in RegistryOrders :
            (B.root_data.some /\ C28_IdOf(B) # C28_IdOf(call.schema)) =>
                LET a_b == register(Registry_self, B, ord)
                    b == register(call.before, B, ord)
                    b_a == register(b, call.schema, ord)
                IN  (a_b.ret = Ok /\ b.ret = Ok /\ b_a.ret = Ok) =>
                        C28_SameRegistry(a_b, b_a)

\* The anonymous document that refers to u1 was registered first and left u1
\* missing; registering u1 after it, or before it, seals the registry.
C28_Witness ==
    /\ Succeeded
    /\ call.schema = RAnonElems
    /\ call.before = Registry_new
    /\ missing_ids = <<"u1">>
    /\ \E ord \in RegistryOrders :
          LET a_b == register(Registry_self, RU1Plain, ord)
              b == register(call.before, RU1Plain, ord)
              b_a == register(b, call.schema, ord)
          IN  /\ a_b.ret = Ok /\ b.ret = Ok /\ b_a.ret = Ok
              /\ is_sealed(a_b) /\ is_sealed(b) /\ is_sealed(b_a)
              /\ DOMAIN b_a.schemas = {None, U1}


(***************************************************************************)
(* The wire form of a schema: SerdeSchema and SerdeDiscriminator           *)
(* (src/src/serde.rs), with the deserializer and the serializer that       *)
(* #[derive(Deserialize, Serialize)] builds from the fields' types and     *)
(* attributes.  A JSON document is a JSON value; the text of an id or a    *)
(* ref is the sequence of its parts (see the URI operators below), every   *)
(* other string is a TLA+ string.  In the documents considered no keyword  *)
(* has a JSON array as its value.                                          *)
(***************************************************************************)
\* SerdeSchema::default()
SerdeSchema_default ==
    [id |-> None, defs |-> None, rxf |-> None, typ |-> None, elems |-> None,
     props |-> None, opt_props |-> None, values |-> None, discriminator |-> None,
     extra |-> EmptyMap]

SerdeDiscriminator(tag, mapping) == [tag |-> tag, mapping |-> mapping]

\* Result::Ok(x), and the error of serde_json
OkOf(x) == [kind |-> "Ok", v |-> x]
SerdeError == Err("serde_json")

\* The keys the fields of SerdeSchema are (re)named to; any other key is
\* collected by the flattened `extra`.
KnownKeys == {"id", "definitions", "ref", "type", "elements", "properties",
              "optionalProperties", "values", "discriminator"}

\* An Option field: a missing key and a null both give None.
option_is_none(obj, key) == key \notin DOMAIN obj \/ obj[key] = Null

\* Option<String>
deserialize_option_string(obj, key) ==
    IF option_is_none(obj, key) THEN OkOf(None)
    ELSE IF is_string(obj[key]) THEN OkOf(Some(obj[key].v))
    ELSE SerdeError

RECURSIVE deserialize(_)

\* HashMap<String, SerdeSchema>
deserialize_map(value) ==
    IF ~is_object(value) THEN SerdeError
    ELSE IF \E k \in DOMAIN value.v : deserialize(value.v[k]).kind = "Err" THEN SerdeError
    ELSE OkOf([k \in DOMAIN value.v |-> deserialize(value.v[k]).v])

\* Option<HashMap<String, SerdeSchema>>
deserialize_option_map(obj, key) ==
    IF option_is_none(obj, key) THEN OkOf(None)
    ELSE LET m == deserialize_map(obj[key])
         IN  IF m.kind = "Ok" THEN OkOf(Some(m.v)) ELSE m

\* Option<Box<SerdeSchema>>
deserialize_option_box(obj, key) ==
    IF option_is_none(obj, key) THEN OkOf(None)
    ELSE LET s == deserialize(obj[key])
         IN  IF s.kind = "Ok" THEN OkOf(Some(s.v)) ELSE s

\* SerdeDiscriminator: both fields are required, a key that is neither is
\* ignored.
deserialize_discriminator(value) ==
    IF ~is_object(value) THEN SerdeError
    ELSE IF ~({"propertyName", "mapping"} \subseteq DOMAIN value.v) THEN SerdeError
    ELSE IF ~is_string(value.v["propertyName"]) THEN SerdeError
    ELSE LET m == deserialize_map(value.v["mapping"])
         IN  IF m.kind = "Ok"
             THEN OkOf(Some(SerdeDiscriminator(value.v["propertyName"].v, m.v)))
             ELSE m

\* Option<SerdeDiscriminator>
deserialize_option_discriminator(obj, key) ==
    IF option_is_none(obj, key) THEN OkOf(None)
    ELSE deserialize_discriminator(obj[key])

\* serde_json::from_str::<SerdeSchema>, from the parsed JSON value on
deserialize(value) ==
    IF ~is_object(value) THEN SerdeError
    ELSE LET obj == value.v
             id == deserialize_option_string(obj, "id")
             defs == deserialize_option_map(obj, "definitions")
             rxf == deserialize_option_string(obj, "ref")
             typ == deserialize_option_string(obj, "type")
             elems == deserialize_option_box(obj, "elements")
             props == deserialize_option_map(obj, "properties")
             opt_props == deserialize_option_map(obj, "optionalProperties")
             values == deserialize_option_box(obj, "values")
             discriminator == deserialize_option_discriminator(obj, "discriminator")
             fields == <<id, defs, rxf, typ, elems, props, opt_props, values, discriminator>>
         IN  IF \E i \in DOMAIN fields : fields[i].kind = "Err" THEN SerdeError
             ELSE OkOf([id |-> id.v, defs |-> defs.v, rxf |-> rxf.v, typ |-> typ.v,
                        elems |-> elems.v, props |-> props.v, opt_props |-> opt_props.v,
                        values |-> values.v, discriminator |-> discriminator.v,
                        extra |-> [k \in DOMAIN obj \ KnownKeys |-> obj[k]]])

RECURSIVE serialize(_)

\* HashMap<String, SerdeSchema>
serialize_map(m) == Obj([k \in DOMAIN m |-> serialize(m[k])])

\* SerdeDiscriminator
serialize_discriminator(d) ==
    Obj("propertyName" :> Str(d.tag) @@ "mapping" :> serialize_map(d.mapping))

\* A field with skip_serializing_if = "Option::is_none"
serialize_option(key, field, value) ==
    IF field.some THEN key :> value ELSE EmptyMap

\* serde_json::to_string_pretty(&SerdeSchema), up to the JSON value written
serialize(s) ==
    Obj(serialize_option("id", s.id, Str(s.id.v))
        @@ serialize_option("definitions", s.defs, serialize_map(s.defs.v))
        @@ serialize_option("ref", s.rxf, Str(s.rxf.v))
        @@ serialize_option("type", s.typ, Str(s.typ.v))
        @@ serialize_option("elements", s.elems, serialize(s.elems.v))
        @@ serialize_option("properties", s.props, serialize_map(s.props.v))
        @@ serialize_option("optionalProperties", s.opt_props, serialize_map(s.opt_props.v))
        @@ serialize_option("values", s.values, serialize(s.values.v))
        @@ serialize_option("discriminator", s.discriminator,
                            serialize_discriminator(s.discriminator.v))
        @@ s.extra)

(***************************************************************************)
(* The documents given to from_str.  The text of an absolute URI is the    *)
(* scheme followed by the path; a fragment follows a "#".                  *)
(***************************************************************************)
Uri(path) == <<"http:", path>>
UriDef(path, def) == <<"http:", path, "#", def>>

EmptyDoc == Obj(EmptyMap)
\* {"propertyName": tag, "mapping": mapping}
DiscriminatorDoc(tag, mapping) == Obj("propertyName" :> Str(tag) @@ "mapping" :> Obj(mapping))

\* One keyword of each of the groups that decide the form of a schema.
FormGroups == {"ref", "type", "elements", "properties", "values", "discriminator"}
GroupKeyword ==
    [g \in FormGroups |->
        CASE g = "ref" -> "ref" :> Str(<<"#">>)
          [] g = "type" -> "type" :> Str("boolean")
          [] g = "elements" -> "elements" :> EmptyDoc
          [] g = "properties" -> "properties" :> Obj("a" :> EmptyDoc)
          [] g = "values" -> "values" :> EmptyDoc
          [] g = "discriminator" ->
                "discriminator" :> DiscriminatorDoc("t", "a" :> Obj("properties" :> EmptyDoc))]

\* The documents with one or two of the groups.
GroupSeq == <<"ref", "type", "elements", "properties", "values", "discriminator">>
GroupDocuments ==
    [n \in 1..(Len(GroupSeq) * Len(GroupSeq)) |->
        Obj(GroupKeyword[GroupSeq[((n - 1) \div Len(GroupSeq)) + 1]]
            @@ GroupKeyword[GroupSeq[((n - 1) % Len(GroupSeq)) + 1]])]

\* The document of the test roundtrip_json.
RoundTripDocument ==
    Obj("id" :> Str(Uri("u1"))
        @@ "definitions" :> Obj("a" :> EmptyDoc)
        @@ "ref" :> Str(Uri("u2"))
        @@ "type" :> Str("foo")
        @@ "elements" :> EmptyDoc
        @@ "properties" :> Obj("a" :> EmptyDoc)
        @@ "optionalProperties" :> Obj("a" :> EmptyDoc)
        @@ "values" :> EmptyDoc
        @@ "discriminator" :> DiscriminatorDoc("foo", "a" :> EmptyDoc)
        @@ "extra" :> Str("foo"))

OtherDocuments ==
    <<EmptyDoc, RoundTripDocument,
     \* properties and optionalProperties, disjoint and not
     Obj("properties" :> Obj("a" :> EmptyDoc) @@ "optionalProperties" :> Obj("b" :> EmptyDoc)),
     Obj("properties" :> Obj("a" :> EmptyDoc) @@ "optionalProperties" :> Obj("a" :> EmptyDoc)),
     Obj("optionalProperties" :> Obj("a" :> EmptyDoc)),
     Obj("ref" :> Str(<<"#">>) @@ "optionalProperties" :> Obj("a" :> EmptyDoc)),
     Obj("optionalProperties" :> Obj("a" :> EmptyDoc) @@ "values" :> EmptyDoc),
     \* a collision next to another defect
     Obj("ref" :> Str(<<"#">>) @@ "type" :> Str("boolean")
         @@ "properties" :> Obj("a" :> EmptyDoc) @@ "optionalProperties" :> Obj("a" :> EmptyDoc)),
     Obj("properties" :> Obj("a" :> Obj("type" :> Str("bogus")))
         @@ "optionalProperties" :> Obj("a" :> EmptyDoc)),
     \* discriminators: the tag among the keys of a mapped schema, mapped
     \* schemas of other forms
     Obj("discriminator" :> DiscriminatorDoc("t", "a" :> Obj("properties" :> Obj("t" :> EmptyDoc)))),
     Obj("discriminator" :> DiscriminatorDoc("t",
             "a" :> Obj("properties" :> Obj("a" :> EmptyDoc))
             @@ "b" :> Obj("optionalProperties" :> Obj("t" :> EmptyDoc)))),
     Obj("discriminator" :> DiscriminatorDoc("t", "a" :> EmptyDoc)),
     Obj("discriminator" :> DiscriminatorDoc("t",
             "a" :> Obj("properties" :> EmptyDoc) @@ "b" :> Obj("type" :> Str("string")))),
     Obj("discriminator" :> DiscriminatorDoc("t", EmptyMap)),
     \* types, definitions, nesting, ids
     Obj("type" :> Str("bogus")),
     Obj("type" :> Str("null")),
     Obj("definitions" :> Obj("a" :> Obj("type" :> Str("bogus")))),
     Obj("definitions" :> Obj("a" :> Obj("ref" :> Str(<<"#", "a">>) @@ "values" :> EmptyDoc))),
     Obj("elements" :> Obj("type" :> Str("number") @@ "elements" :> EmptyDoc)),
     Obj("values" :> Obj("properties" :> Obj("b" :> EmptyDoc)
                         @@ "optionalProperties" :> Obj("b" :> EmptyDoc))),
     Obj("id" :> Str(Uri("u1")) @@ "ref" :> Str(<<"u2">>)),
     Obj("id" :> Str(<<"u1">>)),
     \* keys that are no keywords
     Obj("a" :> Num(1) @@ "b" :> Obj("id" :> Num(3))),
     Obj("values" :> Obj("a" :> Null)),
     \* keywords that are null, a discriminator with a further key
     Obj("type" :> Null),
     Obj("id" :> Null @@ "elements" :> Null @@ "a" :> Null),
     Obj("discriminator" :> Obj("propertyName" :> Str("t") @@ "mapping" :> Obj(EmptyMap)
                                @@ "a" :> Num(1))),
     \* documents from_str rejects
     Obj("type" :> Num(1)),
     Obj("discriminator" :> Obj("propertyName" :> Str("t"))),
     Obj("properties" :> Obj("a" :> Str("x"))),
     Str("x")>>

WireDocuments == GroupDocuments \o OtherDocuments

(***************************************************************************)
(* Url (the url crate), as far as schema.rs uses it.  A URI text is a      *)
(* sequence of parts: it is absolute when it begins with the scheme, its   *)
(* fragment is what follows the first "#".  A relative reference replaces  *)
(* the path of its base.                                                   *)
(***************************************************************************)
Url(path, fragment) == [path |-> path, fragment |-> fragment]

RECURSIVE Text(_)
\* The string a sequence of parts spells.
Text(parts) == IF parts = <<>> THEN "" ELSE Head(parts) \o Text(Tail(parts))

\* The position of the first "#", or 0.
HashAt(uri) ==
    IF \E i \in DOMAIN uri : uri[i] = "#"
    THEN CHOOSE i \in DOMAIN uri : uri[i] = "#" /\ \A j \in 1..(i - 1) : uri[j] # "#"
    ELSE 0

PathOf(uri) == IF HashAt(uri) = 0 THEN uri ELSE SubSeq(uri, 1, HashAt(uri) - 1)
FragmentOf(uri) ==
    IF HashAt(uri) = 0 THEN None ELSE Some(Text(SubSeq(uri, HashAt(uri) + 1, Len(uri))))

is_absolute(uri) == uri # <<>> /\ uri[1] = "http:"

\* Url::parse
Url_parse(uri) ==
    IF is_absolute(uri) THEN OkOf(Url(PathOf(uri), FragmentOf(uri)))
    ELSE Err("relative URL without a base")

\* Url::join
Url_join(base, uri) ==
    IF is_absolute(uri) THEN Url_parse(uri)
    ELSE IF PathOf(uri) = <<>> THEN OkOf(Url(base.path, FragmentOf(uri)))
    ELSE OkOf(Url(<<base.path[1]>> \o PathOf(uri), FragmentOf(uri)))

(***************************************************************************)
(* Schema, RootData, SchemaForm and the errors of src/src/schema.rs.       *)
(***************************************************************************)
Schema(root_data, form, extra) == [root_data |-> root_data, form |-> form, extra |-> extra]
RootData(id, defs) == [id |-> id, defs |-> defs]

SchemaForm_Empty == [f |-> "Empty"]
SchemaForm_Ref(uri, resolved_schema_id, resolved_schema_def) ==
    [f |-> "Ref", uri |-> uri, resolved_schema_id |-> resolved_schema_id,
     resolved_schema_def |-> resolved_schema_def]
SchemaForm_Type(typ) == [f |-> "Type", typ |-> typ]
SchemaForm_Elements(sub) == [f |-> "Elements", sub |-> sub]
SchemaForm_Properties(required, optional) ==
    [f |-> "Properties", required |-> required, optional |-> optional]
SchemaForm_Values(sub) == [f |-> "Values", sub |-> sub]
SchemaForm_Discriminator(tag, mapping) ==
    [f |-> "Discriminator", tag |-> tag, mapping |-> mapping]

\* ErrorKind, and the messages of chain_err
InvalidForm == Err("InvalidForm")
AmbiguousProperty == Err("AmbiguousProperty")
ErrorKind_NoSuchDefinition == Err("NoSuchDefinition")
FailedToParseId == Err("failed to parse id")
CannotResolveUri == Err("cannot resolve uri")

(***************************************************************************)
(* Registry::first_pass.  order is the iteration order of the hash maps of *)
(* the SerdeSchema.  A loop over a map that returns at the first entry     *)
(* whose outcome is an error is given by the outcomes of its entries.      *)
(***************************************************************************)
\* for (k, v) in map { ...? }: the first error in iteration order, or the
\* map of the values.
first_error_or_map(outcomes, order) ==
    LET keys == KeySeq(DOMAIN outcomes, order)
        failing == {i \in DOMAIN keys : outcomes[keys[i]].kind = "Err"}
    IN  IF failing = {} THEN OkOf([k \in DOMAIN outcomes |-> outcomes[k].v])
        ELSE outcomes[keys[CHOOSE i \in failing : \A j \in failing : i <= j]]

\* schema.props.unwrap_or_default()
unwrap_or_default(option_map) == IF option_map.some THEN option_map.v ELSE EmptyMap

RECURSIVE first_pass(_, _, _)

\* let root_data = if is_root { ... } else { None }
first_pass_root_data(is_root, s, order) ==
    IF ~is_root THEN OkOf(None)
    ELSE LET id == IF s.id.some THEN Url_parse(s.id.v) ELSE OkOf(None)
             defs == first_error_or_map(
                         [k \in DOMAIN unwrap_or_default(s.defs) |->
                             first_pass(FALSE, s.defs.v[k], order)], order)
         IN  IF id.kind = "Err" THEN FailedToParseId
             ELSE IF defs.kind = "Err" THEN defs
             ELSE OkOf(Some(RootData(IF s.id.some THEN Some(id.v) ELSE None, defs.v)))

\* if let Some(rxf) = schema.rxf
first_pass_ref(s) ==
    IF s.rxf.some THEN SchemaForm_Ref(s.rxf.v, None, None) ELSE SchemaForm_Empty

\* if let Some(typ) = schema.typ
first_pass_type(s, form) ==
    IF ~s.typ.some THEN OkOf(form)
    ELSE IF form # SchemaForm_Empty THEN InvalidForm
    ELSE CASE s.typ.v = "null" -> OkOf(SchemaForm_Type("Null"))
           [] s.typ.v = "boolean" -> OkOf(SchemaForm_Type("Bool"))
           [] s.typ.v = "number" -> OkOf(SchemaForm_Type("Num"))
           [] s.typ.v = "string" -> OkOf(SchemaForm_Type("Str"))
           [] OTHER -> InvalidForm

\* if let Some(elems) = schema.elems
first_pass_elements(s, form, order) ==
    IF ~s.elems.some THEN OkOf(form)
    ELSE IF form # SchemaForm_Empty THEN InvalidForm
    ELSE LET sub == first_pass(FALSE, s.elems.v, order)
         IN  IF sub.kind = "Err" THEN sub ELSE OkOf(SchemaForm_Elements(sub.v))

\* A variant of first_pass_optional_entry that does not look the name up
\* among the required properties.
first_pass_optional_entry_unchecked(required, sub_schema, name, order) ==
    first_pass(FALSE, sub_schema, order)

\* One entry of optionalProperties.
first_pass_optional_entry(required, sub_schema, name, order) ==
    IF name \in DOMAIN required THEN AmbiguousProperty
    ELSE first_pass(FALSE, sub_schema, order)

\* if schema.props.is_some() || schema.opt_props.is_some(): the form is
\* assigned whatever it was.
first_pass_properties(s, form, order) ==
    IF ~(s.props.some \/ s.opt_props.some) THEN OkOf(form)
    ELSE LET props == unwrap_or_default(s.props)
             opt_props == unwrap_or_default(s.opt_props)
             required == first_error_or_map(
                             [k \in DOMAIN props |-> first_pass(FALSE, props[k], order)],
                             order)
         IN  IF required.kind = "Err" THEN required
             ELSE LET optional == first_error_or_map(
                                      [k \in DOMAIN opt_props |->
                                          first_pass_optional_entry(required.v, opt_props[k],
                                                                    k, order)], order)
                  IN  IF optional.kind = "Err" THEN optional
                      ELSE OkOf(SchemaForm_Properties(required.v, optional.v))

\* if let Some(values) = schema.values
first_pass_values(s, form, order) ==
    IF ~s.values.some THEN OkOf(form)
    ELSE IF form # SchemaForm_Empty THEN InvalidForm
    ELSE LET sub == first_pass(FALSE, s.values.v, order)
         IN  IF sub.kind = "Err" THEN sub ELSE OkOf(SchemaForm_Values(sub.v))

\* One entry of the mapping of a discriminator: the mapped schema is of the
\* Properties form, and the tag is none of its properties.
first_pass_mapping_entry(tag, sub_schema, order) ==
    LET parsed_schema == first_pass(FALSE, sub_schema, order)
    IN  IF parsed_schema.kind = "Err" THEN parsed_schema
        ELSE IF parsed_schema.v.form.f = "Properties"
        THEN IF tag \in DOMAIN parsed_schema.v.form.required
                \/ tag \in DOMAIN parsed_schema.v.form.optional
             THEN AmbiguousProperty
             ELSE parsed_schema
        ELSE AmbiguousProperty

\* if let Some(discriminator) = schema.discriminator
first_pass_discriminator(s, form, order) ==
    IF ~s.discriminator.some THEN OkOf(form)
    ELSE IF form # SchemaForm_Empty THEN InvalidForm
    ELSE LET discriminator == s.discriminator.v
             mapping == first_error_or_map(
                            [k \in DOMAIN discriminator.mapping |->
                                first_pass_mapping_entry(discriminator.tag,
                                                         discriminator.mapping[k], order)],
                            order)
         IN  IF mapping.kind = "Err" THEN mapping
             ELSE OkOf(SchemaForm_Discriminator(discriminator.tag, mapping.v))

first_pass(is_root, s, order) ==
    LET root_data == first_pass_root_data(is_root, s, order)
        typ == first_pass_type(s, first_pass_ref(s))
        elems == IF typ.kind = "Err" THEN typ ELSE first_pass_elements(s, typ.v, order)
        props == IF elems.kind = "Err" THEN elems ELSE first_pass_properties(s, elems.v, order)
        values == IF props.kind = "Err" THEN props ELSE first_pass_values(s, props.v, order)
        form == IF values.kind = "Err" THEN values
                ELSE first_pass_discriminator(s, values.v, order)
    IN  IF root_data.kind = "Err" THEN root_data
        ELSE IF form.kind = "Err" THEN form
        ELSE OkOf(Schema(root_data.v, form.v, s.extra))

(***************************************************************************)
(* The state machine of the wire form: a document is read, and the         *)
(* SerdeSchema read is written again or canonicalized.                     *)
(***************************************************************************)
\* serde_json::from_str
Serde_from_str ==
    /\ \E n \in DOMAIN WireDocuments :
          /\ wire' = WireDocuments[n]
          /\ parsed' = deserialize(WireDocuments[n])
    /\ round_trip' = None
    /\ canonical' = NoResult
    /\ UNCHANGED <<uri_schemas, uri_call>>
    /\ UNCHANGED validator_vars
    /\ UNCHANGED registry_vars

\* serde_json::to_string_pretty
Serde_to_string ==
    /\ parsed.kind = "Ok"
    /\ round_trip = None
    /\ round_trip' = Some(serialize(parsed.v))
    /\ UNCHANGED <<wire, parsed, canonical, uri_schemas, uri_call>>
    /\ UNCHANGED validator_vars
    /\ UNCHANGED registry_vars

\* Registry::first_pass(true, schema), as register calls it
Registry_first_pass ==
    /\ parsed.kind = "Ok"
    /\ canonical = NoResult
    /\ \E order \in KeyOrders : canonical' = first_pass(TRUE, parsed.v, order)
    /\ UNCHANGED <<wire, parsed, round_trip, uri_schemas, uri_call>>
    /\ UNCHANGED validator_vars
    /\ UNCHANGED registry_vars

WireNext ==
    \/ Serde_from_str
    \/ Serde_to_string
    \/ Registry_first_pass

WireSpec == Init /\ [][WireNext]_vars

(***************************************************************************)
(* Reading a SerdeSchema: the groups of keywords it holds.                 *)
(***************************************************************************)
Canonicalized == canonical.kind # "None"

GroupsOf(s) ==
    {g \in FormGroups :
        CASE g = "ref" -> s.rxf.some
          [] g = "type" -> s.typ.some
          [] g = "elements" -> s.elems.some
          [] g = "properties" -> s.props.some \/ s.opt_props.some
          [] g = "values" -> s.values.some
          [] g = "discriminator" -> s.discriminator.some}

FormOfGroup(g) ==
    CASE g = "ref" -> "Ref"
      [] g = "type" -> "Type"
      [] g = "elements" -> "Elements"
      [] g = "properties" -> "Properties"
      [] g = "values" -> "Values"
      [] g = "discriminator" -> "Discriminator"

(***************************************************************************)
(* C21.  Form exclusivity: first_pass fails with InvalidForm for every     *)
(* SerdeSchema in which two or more of the groups ref, type, elements,     *)
(* properties/optionalProperties, values, discriminator are present,       *)
(* whatever the pair; a Schema that is produced has the form of its single *)
(* present group, or Empty when none is present.                           *)
(* The properties group is not preceded by the test form != Empty: a       *)
(* schema with ref, type or elements next to properties is accepted, as a  *)
(* Properties schema.                                                      *)
(***************************************************************************)
C21_FormExclusivity ==
    Canonicalized =>
        LET groups == GroupsOf(parsed.v)
        IN  /\ Cardinality(groups) >= 2 => canonical = InvalidForm
            /\ canonical.kind = "Ok" =>
                  IF groups = {} THEN canonical.v.form.f = "Empty"
                  ELSE \E g \in groups : groups = {g} /\ canonical.v.form.f = FormOfGroup(g)

(***************************************************************************)
(* C22.  Key collisions are rejected with AmbiguousProperty: first_pass    *)
(* fails with AmbiguousProperty when a key appears in both properties and  *)
(* optionalProperties of the same schema, and when the discriminator tag   *)
(* appears among the properties or optionalProperties keys of a schema in  *)
(* the discriminator mapping; no Schema is produced in either case.        *)
(* No Schema is produced wherever the collision is; the error is           *)
(* AmbiguousProperty when the collision is the first defect first_pass     *)
(* meets: the schema holds no other group and no definitions, and its      *)
(* sub-schemas are empty schemas.                                          *)
(***************************************************************************)
C22_Collision(s) ==
    DOMAIN unwrap_or_default(s.props) \cap DOMAIN unwrap_or_default(s.opt_props) # {}

C22_TagCollision(s) ==
    /\ s.discriminator.some
    /\ \E k \in DOMAIN s.discriminator.v.mapping :
          LET mapped == s.discriminator.v.mapping[k]
          IN  s.discriminator.v.tag \in DOMAIN unwrap_or_default(mapped.props)
                                        \cup DOMAIN unwrap_or_default(mapped.opt_props)

\* A collision in the schema or in a schema first_pass reaches from it; the
\* definitions are read in a root schema only.
RECURSIVE C22_Collides(_, _)
C22_Collides(s, is_root) ==
    \/ C22_Collision(s)
    \/ C22_TagCollision(s)
    \/ is_root /\ \E k \in DOMAIN unwrap_or_default(s.defs) : C22_Collides(s.defs.v[k], FALSE)
    \/ s.elems.some /\ C22_Collides(s.elems.v, FALSE)
    \/ \E k \in DOMAIN unwrap_or_default(s.props) : C22_Collides(s.props.v[k], FALSE)
    \/ \E k \in DOMAIN unwrap_or_default(s.opt_props) : C22_Collides(s.opt_props.v[k], FALSE)
    \/ s.values.some /\ C22_Collides(s.values.v, FALSE)
    \/ s.discriminator.some /\ \E k \in DOMAIN s.discriminator.v.mapping :
                                  C22_Collides(s.discriminator.v.mapping[k], FALSE)

\* The maps of the schema hold empty schemas only.
C22_Plain(m) == \A k \in DOMAIN m : m[k] = SerdeSchema_default

C23_NonPropertiesMapping ==
    Canonicalized =>
        LET s == parsed.v
        IN  /\ (/\ GroupsOf(s) = {"discriminator"}
                /\ ~s.defs.some /\ ~s.id.some
                /\ \E k \in DOMAIN s.discriminator.v.mapping :
                      "properties" \notin GroupsOf(s.discriminator.v.mapping[k])
                /\ \A k \in DOMAIN s.discriminator.v.mapping :
                      first_pass(FALSE, s.discriminator.v.mapping[k],
                                 CHOOSE order \in KeyOrders : TRUE).kind = "Ok") =>
                  canonical = InvalidForm
            /\ (canonical.kind = "Ok" /\ canonical.v.form.f = "Discriminator") =>
                  \A k \in DOMAIN canonical.v.form.mapping :
                      canonical.v.form.mapping[k].form.f = "Properties"

(***************************************************************************)
(* C26.  Serde round-trip: for every JSON document that deserializes into  *)
(* a SerdeSchema, serializing the SerdeSchema again yields a document with *)
(* the same keys and values; absent keywords stay absent.                  *)
(* A keyword whose value is null is read as an absent one and is not       *)
(* written again, and a key of the discriminator object other than         *)
(* propertyName and mapping is dropped.                                    *)
(***************************************************************************)
C26_SerdeRoundTrip == round_trip.some => round_trip.v = wire


(***************************************************************************)
(* Registry::second_pass: the references of a schema are resolved in       *)
(* place.  The outcome holds the schema as the call leaves it, also when   *)
(* it stops at a reference that cannot be resolved.                        *)
(***************************************************************************)
Stopped(error, v) == [kind |-> "Err", error |-> error, v |-> v]

\* A variant of second_pass_ref that resolves every reference without its
\* base.
second_pass_ref_no_base(base, form) ==
    IF form.uri = <<>> \/ form.uri = <<"#">>
    THEN OkOf(SchemaForm_Ref(form.uri, None, None))
    ELSE IF form.uri[1] = "#"
    THEN OkOf(SchemaForm_Ref(form.uri, None, Some(Text(Tail(form.uri)))))
    ELSE LET resolved == Url_parse(form.uri)
         IN  IF resolved.kind = "Err" THEN Stopped("cannot resolve uri", form)
             ELSE OkOf(SchemaForm_Ref(
                          form.uri,
                          Some(Url(resolved.v.path, None)),
                          IF resolved.v.fragment.some /\ resolved.v.fragment.v # ""
                          THEN resolved.v.fragment ELSE None))

\* SchemaForm::Ref
second_pass_ref(base, form) ==
    IF form.uri = <<>> \/ form.uri = <<"#">>
    THEN OkOf(SchemaForm_Ref(form.uri, None, None))
    ELSE IF form.uri[1] = "#"
    THEN OkOf(SchemaForm_Ref(form.uri, None, Some(Text(Tail(form.uri)))))
    ELSE LET resolved == IF base.some THEN Url_join(base.v, form.uri)
                         ELSE Url_parse(form.uri)
         IN  IF resolved.kind = "Err" THEN Stopped("cannot resolve uri", form)
             ELSE OkOf(SchemaForm_Ref(
                          form.uri,
                          Some(Url(resolved.v.path, None)),
                          IF resolved.v.fragment.some /\ resolved.v.fragment.v # ""
                          THEN resolved.v.fragment ELSE None))

\* rest applied to the value of v, which is computed once.
Let(v, rest(_)) == CHOOSE out \in {rest(x) : x \in {v}} : TRUE

RECURSIVE second_pass(_, _, _)
RECURSIVE second_pass_values(_, _, _, _, _)

\* for sub_schema in map.values_mut() { Self::second_pass(base, sub_schema)?; }
second_pass_values(base, map, keys, i, order) ==
    IF i > Len(keys) THEN OkOf(map)
    ELSE Let(second_pass(base, map[keys[i]], order),
             LAMBDA r :
             Let([map EXCEPT ![keys[i]] = r.v],
                 LAMBDA map1 :
                 IF r.kind = "Err" THEN Stopped(r.error, map1)
                 ELSE second_pass_values(base, map1, keys, i + 1, order)))

\* SchemaForm::Properties: required, then optional
second_pass_properties(base, sch, order) ==
    Let(second_pass_values(base, sch.form.required,
                           KeySeq(DOMAIN sch.form.required, order), 1, order),
        LAMBDA r :
        IF r.kind = "Err" THEN [r EXCEPT !.v = [sch EXCEPT !.form.required = r.v]]
        ELSE Let(second_pass_values(base, sch.form.optional,
                                    KeySeq(DOMAIN sch.form.optional, order), 1, order),
                 LAMBDA o : [o EXCEPT !.v = [sch EXCEPT !.form.required = r.v,
                                                        !.form.optional = o.v]]))

second_pass(base, sch, order) ==
    CASE sch.form.f = "Ref" ->
           Let(second_pass_ref(base, sch.form),
               LAMBDA r : [r EXCEPT !.v = [sch EXCEPT !.form = r.v]])
      [] sch.form.f \in {"Elements", "Values"} ->
           Let(second_pass(base, sch.form.sub, order),
               LAMBDA r : [r EXCEPT !.v = [sch EXCEPT !.form.sub = r.v]])
      [] sch.form.f = "Properties" -> second_pass_properties(base, sch, order)
      [] sch.form.f = "Discriminator" ->
           Let(second_pass_values(base, sch.form.mapping,
                                  KeySeq(DOMAIN sch.form.mapping, order), 1, order),
               LAMBDA r : [r EXCEPT !.v = [sch EXCEPT !.form.mapping = r.v]])
      [] OTHER -> OkOf(sch)

(***************************************************************************)
(* Registry::third_pass.  acc holds missing_uris and the Result of the     *)
(* call in progress; "Panic" is the unwrap of a root_data that is None.    *)
(***************************************************************************)
NewMissing == [missing_uris |-> <<>>, ret |-> "Ok", error |-> None]

\* if let Some(def) = resolved_schema_def { ... }
third_pass_definition(acc, resolved_schema, def) ==
    IF ~def.some THEN acc
    ELSE IF ~resolved_schema.root_data.some THEN [acc EXCEPT !.ret = "Panic"]
    ELSE IF def.v \notin DOMAIN resolved_schema.root_data.v.defs
    THEN [acc EXCEPT !.ret = "Err", !.error = Some("NoSuchDefinition")]
    ELSE acc

\* SchemaForm::Ref: a reference with no resolved_schema_id is looked up in
\* the schema that holds it.
third_pass_ref(acc, self_schemas, sch) ==
    IF sch.form.resolved_schema_id.some
    THEN IF sch.form.resolved_schema_id \in DOMAIN self_schemas
         THEN third_pass_definition(acc, self_schemas[sch.form.resolved_schema_id],
                                    sch.form.resolved_schema_def)
         ELSE [acc EXCEPT !.missing_uris = Append(@, sch.form.resolved_schema_id.v)]
    ELSE third_pass_definition(acc, sch, sch.form.resolved_schema_def)

RECURSIVE third_pass(_, _, _, _, _)
RECURSIVE third_pass_values(_, _, _, _, _, _, _)

\* for sub_schema in map.values() { Self::third_pass(.., sub_schema)?; }
third_pass_values(acc, self_schemas, root_schema, map, keys, i, order) ==
    IF i > Len(keys) THEN acc
    ELSE Let(third_pass(acc, self_schemas, root_schema, map[keys[i]], order),
             LAMBDA w :
             IF w.ret # "Ok" THEN w
             ELSE third_pass_values(w, self_schemas, root_schema, map, keys, i + 1, order))

third_pass(acc, self_schemas, root_schema, sch, order) ==
    CASE sch.form.f = "Ref" -> third_pass_ref(acc, self_schemas, sch)
      [] sch.form.f \in {"Elements", "Values"} ->
           third_pass(acc, self_schemas, root_schema, sch.form.sub, order)
      [] sch.form.f = "Properties" ->
           Let(third_pass_values(acc, self_schemas, root_schema, sch.form.required,
                                 KeySeq(DOMAIN sch.form.required, order), 1, order),
               LAMBDA w :
               IF w.ret # "Ok" THEN w
               ELSE third_pass_values(w, self_schemas, root_schema, sch.form.optional,
                                      KeySeq(DOMAIN sch.form.optional, order), 1, order))
      [] sch.form.f = "Discriminator" ->
           third_pass_values(acc, self_schemas, root_schema, sch.form.mapping,
                             KeySeq(DOMAIN sch.form.mapping, order), 1, order)
      [] OTHER -> acc

(***************************************************************************)
(* Registry::register of schema.rs.  order.ids is the iteration order of   *)
(* Registry.schemas, order.keys that of the maps inside a schema.  The     *)
(* outcome is the schemas as the call leaves them, and what it returns.    *)
(***************************************************************************)
RECURSIVE register_first_pass(_, _, _, _)
\* for schema in schemas { let schema = Self::first_pass(true, schema)?; insert }
register_first_pass(self_schemas, batch, i, order) ==
    IF i > Len(batch) THEN OkOf(self_schemas)
    ELSE Let(first_pass(TRUE, batch[i], order.keys),
             LAMBDA sch :
             IF sch.kind = "Err" THEN Stopped(sch.error, self_schemas)
             ELSE Let((sch.v.root_data.v.id :> sch.v) @@ self_schemas,
                      LAMBDA inserted : register_first_pass(inserted, batch, i + 1, order)))

\* The body of the second loop: the definitions of a root, then the root.
register_second_pass_root(sch, order) ==
    Let(second_pass_values(sch.root_data.v.id, sch.root_data.v.defs,
                           KeySeq(DOMAIN sch.root_data.v.defs, order.keys), 1, order.keys),
        LAMBDA defs :
        IF defs.kind = "Err"
        THEN Stopped(defs.error, [sch EXCEPT !.root_data.v.defs = defs.v])
        ELSE second_pass(sch.root_data.v.id, [sch EXCEPT !.root_data.v.defs = defs.v],
                         order.keys))

RECURSIVE register_second_pass(_, _, _, _)
\* for (_, schema) in self.schemas.values_mut().enumerate() { ... }
register_second_pass(self_schemas, ids, i, order) ==
    IF i > Len(ids) THEN OkOf(self_schemas)
    ELSE Let(register_second_pass_root(self_schemas[ids[i]], order),
             LAMBDA r :
             Let([self_schemas EXCEPT ![ids[i]] = r.v],
                 LAMBDA schemas1 :
                 IF r.kind = "Err" THEN Stopped(r.error, schemas1)
                 ELSE register_second_pass(schemas1, ids, i + 1, order)))

RECURSIVE register_third_pass(_, _, _, _, _)
\* for schema in self.schemas.values() { Self::third_pass(.., schema, schema)?; }
register_third_pass(acc, self_schemas, ids, i, order) ==
    IF i > Len(ids) THEN acc
    ELSE Let(third_pass(acc, self_schemas, self_schemas[ids[i]], self_schemas[ids[i]],
                        order.keys),
             LAMBDA w :
             IF w.ret # "Ok" THEN w
             ELSE register_third_pass(w, self_schemas, ids, i + 1, order))

\* Ok(missing_uris), or what the third loop stopped with.
register_return(self_schemas, third) ==
    [schemas |-> self_schemas,
     ret |-> CASE third.ret = "Ok" -> OkOf(third.missing_uris)
               [] third.ret = "Err" -> Err(third.error.v)
               [] OTHER -> [kind |-> "Panic"]]

\* Registry::register (schema.rs)
schema_rs_register(self_schemas, batch, order) ==
    Let(register_first_pass(self_schemas, batch, 1, order),
        LAMBDA first :
        IF first.kind = "Err" THEN [schemas |-> first.v, ret |-> Err(first.error)]
        ELSE Let(register_second_pass(first.v, KeySeq(DOMAIN first.v, order.ids), 1, order),
                 LAMBDA second :
                 IF second.kind = "Err"
                 THEN [schemas |-> second.v, ret |-> Err(second.error)]
                 ELSE Let(register_third_pass(NewMissing, second.v,
                                              KeySeq(DOMAIN second.v, order.ids), 1, order),
                          LAMBDA third : register_return(second.v, third))))

(***************************************************************************)
(* The documents registered: targets with and without definitions,         *)
(* references of every spelling under each keyword, in roots with an id    *)
(* and in anonymous roots.                                                  *)
(***************************************************************************)
RefDoc(uri) == Obj("ref" :> Str(uri))

UriDocuments ==
    <<\* 1, 2: targets
      Obj("id" :> Str(Uri("u2")) @@ "definitions" :> Obj("a" :> EmptyDoc)),
      Obj("id" :> Str(Uri("u2"))),
      \* 3: relative, empty, "#" and empty-fragment references under a base
      Obj("id" :> Str(Uri("u1"))
          @@ "definitions" :> Obj("a" :> Obj("values" :> RefDoc(<<"http:", "u2", "#">>))
                                  @@ "b" :> RefDoc(<<"u2">>))
          @@ "properties" :> Obj("a" :> RefDoc(<<"u2", "#", "a">>) @@ "b" :> RefDoc(<<>>))
          @@ "optionalProperties" :> Obj("t" :> RefDoc(<<"#">>))),
      \* 4, 5: the documents of tests::resolve_refs
      Obj("id" :> Str(Uri("u1")) @@ "definitions" :> Obj("a" :> EmptyDoc)
          @@ "ref" :> Str(<<"#", "a">>)),
      Obj("definitions" :> Obj("a" :> RefDoc(<<"#", "a">>)) @@ "ref" :> Str(UriDef("u1", "a"))),
      \* 6, 7: anonymous roots, a relative and an absolute reference
      Obj("elements" :> RefDoc(<<"u2">>)),
      Obj("values" :> RefDoc(UriDef("u2", "a"))),
      \* 8, 9: "#a" below the root of a document that defines a
      Obj("definitions" :> Obj("a" :> EmptyDoc) @@ "elements" :> RefDoc(<<"#", "a">>)),
      Obj("id" :> Str(Uri("u1")) @@ "definitions" :> Obj("a" :> EmptyDoc)
          @@ "discriminator" :> DiscriminatorDoc("t",
                 "a" :> Obj("properties" :> Obj("b" :> RefDoc(<<"#", "a">>))))),
      \* 10, 11: references inside definitions to definitions that are absent
      Obj("id" :> Str(Uri("u1")) @@ "definitions" :> Obj("a" :> RefDoc(<<"#", "b">>))),
      Obj("id" :> Str(Uri("u1"))
          @@ "definitions" :> Obj("a" :> Obj("elements" :> RefDoc(UriDef("u2", "b"))))),
      \* 12: a document first_pass rejects
      Obj("id" :> Str(Uri("u1")) @@ "type" :> Str("bogus")),
      \* 13, 14, 15: references to absent definitions, nested and at the root
      Obj("id" :> Str(Uri("u1")) @@ "elements" :> RefDoc(<<"#", "b">>)),
      Obj("ref" :> Str(<<"#", "b">>)),
      Obj("id" :> Str(Uri("u1")) @@ "optionalProperties" :> Obj("a" :> RefDoc(UriDef("u2", "b"))))>>

UriBatches ==
    {<<n>> : n \in DOMAIN UriDocuments}
    \cup {<<3, 1>>, <<1, 3>>, <<5, 4>>, <<7, 2>>, <<11, 2>>, <<15, 1>>, <<12, 1>>, <<1, 12>>}

UriIds == {None, Some(Url(Uri("u1"), None)), Some(Url(Uri("u2"), None))}

UriOrders ==
    [ids : {o \in [UriIds -> 1..Cardinality(UriIds)] :
                \A j, k \in UriIds : j # k => o[j] # o[k]},
     keys : {o \in KeyOrders : o["t"] = Cardinality(Keys)}]

\* registry.register(vec![serde_json::from_value(..).unwrap(), ..]); a panic
\* ends the program.
SchemaRegistry_register ==
    /\ uri_call.ret.kind # "Panic"
    /\ \E numbers \in UriBatches, order \in UriOrders :
          LET batch == [i \in DOMAIN numbers |-> deserialize(UriDocuments[numbers[i]]).v]
          IN  \E done \in {schema_rs_register(uri_schemas, batch, order)} :
                  /\ uri_schemas' = done.schemas
                  /\ uri_call' = [batch |-> batch, ret |-> done.ret]
    /\ UNCHANGED <<wire, parsed, round_trip, canonical>>
    /\ UNCHANGED validator_vars
    /\ UNCHANGED registry_vars

UriRegistryNext == SchemaRegistry_register

UriRegistrySpec == Init /\ [][UriRegistryNext]_vars


(***************************************************************************)
(* The references of the stored schemas.                                   *)
(***************************************************************************)
RangeOf(map) == {map[k] : k \in DOMAIN map}

RECURSIVE FormRefsOf(_)
\* The Ref forms at and below a schema, definitions apart.
FormRefsOf(sch) ==
    CASE sch.form.f = "Ref" -> {sch.form}
      [] sch.form.f \in {"Elements", "Values"} -> FormRefsOf(sch.form.sub)
      [] sch.form.f = "Properties" ->
           UNION {FormRefsOf(sub) : sub \in RangeOf(sch.form.required) \cup RangeOf(sch.form.optional)}
      [] sch.form.f = "Discriminator" -> UNION {FormRefsOf(sub) : sub \in RangeOf(sch.form.mapping)}
      [] OTHER -> {}

\* The Ref forms below the root of a schema: those that are not the root's form.
NestedRefsOf(root) == IF root.form.f = "Ref" THEN {} ELSE FormRefsOf(root)

\* The Ref forms inside the definitions of a root.
DefinitionRefsOf(root) == UNION {FormRefsOf(def) : def \in RangeOf(root.root_data.v.defs)}

\* The second loop of register has gone through every stored schema.
ReferencesResolved ==
    \/ uri_call.ret.kind \in {"Ok", "Panic"}
    \/ uri_call.ret = ErrorKind_NoSuchDefinition

SameDocument(uri) == uri = <<>> \/ uri[1] = "#"

\* C24: after register has resolved the references, every reference of every
\* stored root and of its definitions reads: "" and "#" the same document with
\* no definition; "#x" the same document with definition x; any other ref the
\* document it names, relative to the id of the enclosing root when the ref is
\* not absolute, with the non-empty fragment as definition and no definition
\* when the fragment is empty or absent.  register fails with "cannot resolve
\* uri" exactly when a stored anonymous root holds a relative ref.
C24_Target(id, uri) ==
    IF is_absolute(uri) THEN Url(PathOf(uri), None)
    ELSE Url(<<id.v.path[1]>> \o PathOf(uri), None)

C24_Resolved(id, ref) ==
    IF ref.uri = <<>> \/ ref.uri = <<"#">>
    THEN ref.resolved_schema_id = None /\ ref.resolved_schema_def = None
    ELSE IF ref.uri[1] = "#"
    THEN /\ ref.resolved_schema_id = None
         /\ ref.resolved_schema_def = Some(Text(Tail(ref.uri)))
    ELSE /\ is_absolute(ref.uri) \/ id.some
         /\ ref.resolved_schema_id = Some(C24_Target(id, ref.uri))
         /\ ref.resolved_schema_def =
                IF FragmentOf(ref.uri) \in {None, Some("")} THEN None ELSE FragmentOf(ref.uri)

C24_RelativeInAnonymous ==
    \E id \in DOMAIN uri_schemas :
        /\ ~id.some
        /\ \E ref \in FormRefsOf(uri_schemas[id]) \cup DefinitionRefsOf(uri_schemas[id]) :
               ~SameDocument(ref.uri) /\ ~is_absolute(ref.uri)

C24_ReferenceResolution ==
    /\ ReferencesResolved =>
           \A id \in DOMAIN uri_schemas :
               \A ref \in FormRefsOf(uri_schemas[id]) \cup DefinitionRefsOf(uri_schemas[id]) :
                   C24_Resolved(id, ref)
    /\ C24_RelativeInAnonymous => uri_call.ret.kind = "Err"
    /\ uri_call.ret = CannotResolveUri => C24_RelativeInAnonymous

\* A register that returned Ok left a root with an id whose relative ref, with
\* a fragment, is resolved against that id.
C24_Witness ==
    /\ uri_call.ret.kind = "Ok"
    /\ \E id \in DOMAIN uri_schemas :
           /\ id.some
           /\ \E ref \in FormRefsOf(uri_schemas[id]) :
                  /\ ~SameDocument(ref.uri) /\ ~is_absolute(ref.uri)
                  /\ ref.resolved_schema_id \in DOMAIN uri_schemas
                  /\ ref.resolved_schema_def.some

\* C25: when a reference of a stored root or of one of its definitions, at
\* any depth, names a definition that the root it refers to does not have,
\* register fails with NoSuchDefinition.
C25_Referent(id, ref) == IF ref.resolved_schema_id.some THEN ref.resolved_schema_id ELSE id

C25_Dangling(id, ref) ==
    /\ ref.resolved_schema_def.some
    /\ C25_Referent(id, ref) \in DOMAIN uri_schemas
    /\ ref.resolved_schema_def.v
           \notin DOMAIN uri_schemas[C25_Referent(id, ref)].root_data.v.defs

C25_DefinitionPostPass ==
    (/\ ReferencesResolved
     /\ \E id \in DOMAIN uri_schemas :
            \E ref \in FormRefsOf(uri_schemas[id]) \cup DefinitionRefsOf(uri_schemas[id]) :
                C25_Dangling(id, ref))
    => uri_call.ret = ErrorKind_NoSuchDefinition

\* C29: register never panics: whatever is registered, in whatever order,
\* the call returns the missing URIs or an error.
C29_NeverPanics == uri_call.ret.kind # "Panic"

====
